---------------------------- MODULE Spec2Model ----------------------------
(***************************************************************************)
(* Lead qualification pipeline (Urvi1402/LeadAnalysis): the name           *)
(* canonicalizer, the lead relevance classifier, the company candidate     *)
(* extractor, the per-email run loop with its model-based fallback, and    *)
(* the weighted scoring engine.                                            *)
(*                                                                         *)
(* Text is modelled as a sequence of one-character strings, so that the    *)
(* regular expressions, substring tests and string methods of the source   *)
(* are computed character by character. A character outside ASCII is the   *)
(* string of its code point, "U+2014" for the em dash.                     *)
(***************************************************************************)
EXTENDS Integers, Sequences, FiniteSets, TLC

VARIABLES
    canon,      \* canonicalizer harness: a display name and its identity keys
    heur,       \* classifier and extractor harness: one email and what they return
    mailbox,    \* the run loop: the messages of the Gmail mailbox, by message id
    env,        \* the run loop: USE_LLM_EXTRACTION and the LLM service configuration
    db,         \* the run loop: the emails, companies and email_companies tables
    run,        \* the run loop: where main() is, and its local variables
    hist,       \* the run loop: what has been done for each email row (history)
    scoring,    \* scoring harness: a company profile, the clock and the score result
    batch,      \* the scoring batch: where score_and_write_once's main() is, and its files
    chat        \* one call of chat_completions: its arguments, the attempts made, the outcome

pipeVars == <<mailbox, env, db, run, hist>>

vars == <<canon, heur, mailbox, env, db, run, hist, scoring, batch, chat>>

\* Python's None where a string is expected: a value no text equals
None == <<"None">>

-----------------------------------------------------------------------------
(* Characters and the str / re primitives the source uses.                 *)

UpperChars == <<"A","B","C","D","E","F","G","H","I","J","K","L","M","N","O","P","Q","R","S","T","U","V","W","X","Y","Z">>
LowerChars == <<"a","b","c","d","e","f","g","h","i","j","k","l","m","n","o","p","q","r","s","t","u","v","w","x","y","z">>
DigitChars == <<"0","1","2","3","4","5","6","7","8","9">>

Range(s) == {s[i] : i \in 1..Len(s)}

\* str.isspace() / the regex class \s
WS == {" ", "\t", "\n", "\r", "\f"}

\* the regex class \w, which decides the word boundary \b
WordChars == Range(UpperChars) \cup Range(LowerChars) \cup Range(DigitChars) \cup {"_"}

\* str.lower(), one character
LowerChar(c) ==
    IF c \in Range(UpperChars)
    THEN LowerChars[CHOOSE i \in 1..Len(UpperChars) : UpperChars[i] = c]
    ELSE c

\* str.lower()
Lower(s) == [i \in 1..Len(s) |-> LowerChar(s[i])]

\* str.strip(chars): drop the leading and trailing characters that are in cs
StripChars(s, cs) ==
    LET keep == {i \in 1..Len(s) : s[i] \notin cs}
    IN  IF keep = {} THEN <<>>
        ELSE LET lo == CHOOSE i \in keep : \A j \in keep : i <= j
                 hi == CHOOSE i \in keep : \A j \in keep : j <= i
             IN  SubSeq(s, lo, hi)

\* str.strip()
Strip(s) == StripChars(s, WS)

\* re.sub(r"[cls]+", " ", s): each maximal run of characters of cls becomes one space
RECURSIVE SubRunsFrom(_, _, _)
SubRunsFrom(s, cls, i) ==
    IF i > Len(s) THEN <<>>
    ELSE IF s[i] \in cls
         THEN (IF i > 1 /\ s[i-1] \in cls THEN <<>> ELSE <<" ">>) \o SubRunsFrom(s, cls, i + 1)
         ELSE <<s[i]>> \o SubRunsFrom(s, cls, i + 1)

SubRuns(s, cls) == SubRunsFrom(s, cls, 1)

\* re.sub(r"[cls]", " ", s): each character of cls becomes a space
SubEach(s, cls) == [i \in 1..Len(s) |-> IF s[i] \in cls THEN " " ELSE s[i]]

\* str.split(): the maximal runs of non-whitespace characters, in order
RECURSIVE SplitFrom(_, _, _)
SplitFrom(s, i, tok) ==
    IF i > Len(s) THEN (IF tok = <<>> THEN <<>> ELSE <<tok>>)
    ELSE IF s[i] \in WS
         THEN (IF tok = <<>> THEN <<>> ELSE <<tok>>) \o SplitFrom(s, i + 1, <<>>)
         ELSE SplitFrom(s, i + 1, Append(tok, s[i]))

Split(s) == SplitFrom(s, 1, <<>>)

\* " ".join(tokens)
RECURSIVE JoinSp(_)
JoinSp(toks) ==
    IF toks = <<>> THEN <<>>
    ELSE IF Len(toks) = 1 THEN toks[1]
    ELSE toks[1] \o <<" ">> \o JoinSp(Tail(toks))

\* str.replace(c, rep) for a one-character c
RECURSIVE ReplaceChar(_, _, _)
ReplaceChar(s, c, rep) ==
    IF s = <<>> THEN <<>>
    ELSE (IF Head(s) = c THEN rep ELSE <<Head(s)>>) \o ReplaceChar(Tail(s), c, rep)

\* needle in hay
Contains(hay, needle) ==
    \E i \in 1..(Len(hay) - Len(needle) + 1) : SubSeq(hay, i, i + Len(needle) - 1) = needle

\* hay.startswith(needle) at position i
MatchAt(hay, i, needle) ==
    /\ i >= 1
    /\ i + Len(needle) - 1 <= Len(hay)
    /\ SubSeq(hay, i, i + Len(needle) - 1) = needle

\* s.endswith(x)
EndsWith(s, x) == Len(x) <= Len(s) /\ SubSeq(s, Len(s) - Len(x) + 1, Len(s)) = x

\* the concatenation of a sequence of strings
RECURSIVE Concat(_)
Concat(ss) == IF ss = <<>> THEN <<>> ELSE Head(ss) \o Concat(Tail(ss))

\* all sequences of at most n elements of S
SeqsUpTo(S, n) == UNION {[1..k -> S] : k \in 0..n}

-----------------------------------------------------------------------------
(* utils/normalize.py                                                      *)

_SUFFIXES == {
    <<"p","v","t">>, <<"p","v","t",".">>, <<"l","t","d">>, <<"l","t","d",".">>, <<"p","r","i","v","a","t","e">>, <<"l","i","m","i","t","e","d">>, <<"l","l","p">>, <<"i","n","c">>, <<"i","n","c",".">>,
    <<"c","o","r","p">>, <<"c","o","r","p",".">>, <<"c","o">>, <<"c","o",".">>, <<"c","o","m","p","a","n","y">> }

BracketChars == {"(", ")", "[", "]", "{", "}"}

\* the class [a-z0-9&.\- ] whose complement the canonicalizer blanks
NormKeep == Range(LowerChars) \cup Range(DigitChars) \cup {"&", ".", "-", " "}

\* while tokens and tokens[-1] in _SUFFIXES: tokens.pop()
RECURSIVE PopSuffixes(_)
PopSuffixes(tokens) ==
    IF tokens # <<>> /\ tokens[Len(tokens)] \in _SUFFIXES
    THEN PopSuffixes(SubSeq(tokens, 1, Len(tokens) - 1))
    ELSE tokens

\* a mutant: only one trailing suffix token is removed
PopOneSuffix(tokens) ==
    IF tokens # <<>> /\ tokens[Len(tokens)] \in _SUFFIXES
    THEN SubSeq(tokens, 1, Len(tokens) - 1)
    ELSE tokens

StripSuffixTokens(tokens) == PopSuffixes(tokens)

normalize_company_name(name) ==
    IF name = <<>> THEN <<>>
    ELSE LET s1 == Strip(Lower(name))
             s2 == SubEach(s1, BracketChars)
             s3 == SubRuns(s2, {c \in Range(s2) : c \notin NormKeep})
             s4 == Strip(SubRuns(s3, WS))
             tokens == StripSuffixTokens(Split(s4))
             s5 == Strip(JoinSp(tokens))
             s6 == ReplaceChar(s5, "&", <<"a","n","d">>)
         IN  Strip(SubRuns(s6, WS))

\* a mutant: one trailing period is dropped on each cleaning
clean_drop_period(name) ==
    LET s == SubRuns(Strip(name), WS)
    IN  IF s # <<>> /\ s[Len(s)] = "." THEN SubSeq(s, 1, Len(s) - 1) ELSE s

clean_display_name(name) == SubRuns(Strip(name), WS)

-----------------------------------------------------------------------------
(* extraction/email_filter.py                                              *)

PRIMARY_KEYWORDS == {
    <<"i","n","t","e","r","n","s","h","i","p">>, <<"i","n","t","e","r","n">>, <<"h","i","r","i","n","g">>, <<"w","e"," ","a","r","e"," ","h","i","r","i","n","g">>,
    <<"j","o","b"," ","o","p","e","n","i","n","g">>, <<"o","p","e","n","i","n","g">>, <<"v","a","c","a","n","c","y">>, <<"r","o","l","e">>, <<"p","o","s","i","t","i","o","n">>,
    <<"i","n","t","e","r","v","i","e","w">>, <<"s","h","o","r","t","l","i","s","t","e","d">>, <<"s","h","o","r","t","l","i","s","t">>, <<"s","e","l","e","c","t","i","o","n">>,
    <<"r","e","c","r","u","i","t","m","e","n","t">>, <<"r","e","c","r","u","i","t","e","r">>, <<"t","a","l","e","n","t"," ","a","c","q","u","i","s","i","t","i","o","n">>,
    <<"p","r","a","c","t","i","c","e"," ","s","c","h","o","o","l">>, <<"p","s">>, <<"c","a","m","p","u","s"," ","h","i","r","i","n","g">>, <<"p","l","a","c","e","m","e","n","t">> }

SECONDARY_KEYWORDS == { <<"a","p","p","l","y">>, <<"a","p","p","l","i","c","a","t","i","o","n">>, <<"o","p","p","o","r","t","u","n","i","t","y">>, <<"c","a","r","e","e","r">>, <<"c","a","r","e","e","r","s">> }

JOB_EVIDENCE == {
    <<"r","e","s","u","m","e">>, <<"c","v">>, <<"c","u","r","r","i","c","u","l","u","m"," ","v","i","t","a","e">>,
    <<"j","o","b"," ","d","e","s","c","r","i","p","t","i","o","n">>, <<"j","d">>, <<"r","e","s","p","o","n","s","i","b","i","l","i","t","i","e","s">>, <<"r","e","q","u","i","r","e","m","e","n","t","s">>,
    <<"s","t","i","p","e","n","d">>, <<"c","t","c">>, <<"c","o","m","p","e","n","s","a","t","i","o","n">>, <<"s","a","l","a","r","y">>,
    <<"j","o","i","n","i","n","g">>, <<"s","t","a","r","t"," ","d","a","t","e">>, <<"d","u","r","a","t","i","o","n">>, <<"e","l","i","g","i","b","i","l","i","t","y">>,
    <<"a","s","s","e","s","s","m","e","n","t">>, <<"c","o","d","i","n","g"," ","t","e","s","t">>, <<"o","a">>, <<"i","n","t","e","r","v","i","e","w">> }

\* the words w of the patterns \bw\b, in the order of the list
EXCLUDE_SUBJECT_PATTERNS == <<
    <<"d","e","b","i","t","e","d">>, <<"c","r","e","d","i","t","e","d">>, <<"o","t","p">>, <<"s","t","a","t","e","m","e","n","t">>,
    <<"i","n","v","o","i","c","e">>, <<"o","r","d","e","r">>, <<"d","e","l","i","v","e","r","e","d">>, <<"s","h","i","p","m","e","n","t">>,
    <<"n","e","w","s","l","e","t","t","e","r">>, <<"d","i","g","e","s","t">>, <<"c","o","n","f","i","r","m","a","t","i","o","n">>,
    <<"r","e","s","e","t"," ","p","a","s","s","w","o","r","d">>, <<"v","e","r","i","f","i","c","a","t","i","o","n"," ","c","o","d","e">>, <<"t","r","a","n","s","a","c","t","i","o","n">>,
    <<"o","f","f","e","r">>, <<"d","i","s","c","o","u","n","t">>, <<"s","a","l","e">> >>

AGGREGATOR_DOMAINS == {
    <<"n","a","u","k","r","i",".","c","o","m">>, <<"l","i","n","k","e","d","i","n",".","c","o","m">>, <<"i","n","d","e","e","d",".","c","o","m">>, <<"i","n","t","e","r","n","s","h","a","l","a",".","c","o","m">>, <<"g","l","a","s","s","d","o","o","r",".","c","o","m">>,
    <<"s","h","i","n","e",".","c","o","m">>, <<"f","o","u","n","d","i","t",".","i","n">>, <<"m","o","n","s","t","e","r",".","c","o","m">>, <<"l","n","k","d",".","i","n">> }

NEWSLETTER_SIGNALS == {
    <<"u","n","s","u","b","s","c","r","i","b","e">>, <<"m","a","n","a","g","e"," ","p","r","e","f","e","r","e","n","c","e","s">>, <<"v","i","e","w"," ","i","n"," ","b","r","o","w","s","e","r">>,
    <<"p","r","o","m","o","t","i","o","n","a","l">>, <<"y","o","u"," ","r","e","c","e","i","v","e","d"," ","t","h","i","s"," ","e","m","a","i","l"," ","b","e","c","a","u","s","e">> }

\* the regex \b at the gap after position p of s (p = 0: before the first character)
IsBoundary(s, p) ==
    LET before == p >= 1 /\ p <= Len(s) /\ s[p] \in WordChars
        after  == p + 1 >= 1 /\ p + 1 <= Len(s) /\ s[p + 1] \in WordChars
    IN  before # after

\* a mutant: re.match in place of re.search, the word is looked for at the start only
SearchAtStart(w, s) == MatchAt(s, 1, w) /\ IsBoundary(s, Len(w))

\* re.search(r"\bw\b", s)
SearchWord(w, s) ==
    \E i \in 1..(Len(s) - Len(w) + 1) :
        /\ MatchAt(s, i, w)
        /\ IsBoundary(s, i - 1)
        /\ IsBoundary(s, i + Len(w) - 1)

\* the first index of a sequence of booleans that is TRUE, 0 if none
FirstTrue(bs) ==
    IF \E i \in 1..Len(bs) : bs[i]
    THEN CHOOSE i \in 1..Len(bs) : bs[i] /\ \A j \in 1..(i - 1) : ~bs[j]
    ELSE 0

\* from_email.split("@", 1)[1]
AfterAt(addr) ==
    LET i == CHOOSE k \in 1..Len(addr) : addr[k] = "@" /\ \A j \in 1..(k - 1) : addr[j] # "@"
    IN  SubSeq(addr, i + 1, Len(addr))

_domain(from_email) ==
    IF from_email = None \/ from_email = <<>> \/ "@" \notin Range(from_email)
    THEN None
    ELSE Strip(Lower(AfterAt(from_email)))

Decision(ok, reason, detail) == [should_process |-> ok, reason |-> reason, detail |-> detail]

\* a mutant: the primary keywords are looked for before the subject and the sender
PrimaryFirst(subject, body_text, from_email) ==
    LET subj == Lower(subject)
        hay  == subj \o <<"\n">> \o Lower(body_text)
        dom  == _domain(from_email)
        prim == {pk \in PRIMARY_KEYWORDS : Contains(hay, pk)}
    IN  IF prim # {}
        THEN {Decision(TRUE, "primary", pk) : pk \in prim}
        ELSE IF \E k \in 1..Len(EXCLUDE_SUBJECT_PATTERNS) :
                    SearchWord(EXCLUDE_SUBJECT_PATTERNS[k], subj)
        THEN {Decision(FALSE, "excluded_subject", <<>>)}
        ELSE IF dom # None /\ dom # <<>> /\ \E d \in AGGREGATOR_DOMAINS : EndsWith(dom, d)
        THEN {Decision(FALSE, "aggregator_domain", <<>>)}
        ELSE {Decision(FALSE, "no_lead_signals", <<>>)}

\* The decisions is_lead_email can return: one, except that rule 4 names the
\* first primary keyword in the iteration order of a set, which is not fixed.
is_lead_email(subject, body_text, from_email) ==
    LET subj == Lower(subject)
        body == Lower(body_text)
        dom  == _domain(from_email)
        hay  == subj \o <<"\n">> \o body
        excl == FirstTrue([k \in 1..Len(EXCLUDE_SUBJECT_PATTERNS) |->
                              SearchWord(EXCLUDE_SUBJECT_PATTERNS[k], subj)])
        prim == {pk \in PRIMARY_KEYWORDS : Contains(hay, pk)}
    IN  IF excl # 0
        THEN {Decision(FALSE, "excluded_subject", EXCLUDE_SUBJECT_PATTERNS[excl])}
        ELSE IF dom # None /\ dom # <<>> /\ \E d \in AGGREGATOR_DOMAINS : EndsWith(dom, d)
        THEN {Decision(FALSE, "aggregator_domain", <<>>)}
        ELSE IF (\E sig \in NEWSLETTER_SIGNALS : Contains(body, sig)) /\ prim = {}
        THEN {Decision(FALSE, "newsletter_signal", <<>>)}
        ELSE IF prim # {}
        THEN {Decision(TRUE, "primary", pk) : pk \in prim}
        ELSE IF /\ \E sk \in SECONDARY_KEYWORDS : Contains(hay, sk)
                /\ \E ev \in JOB_EVIDENCE : Contains(hay, ev)
        THEN {Decision(TRUE, "secondary+evidence", <<>>)}
        ELSE {Decision(FALSE, "no_lead_signals", <<>>)}

-----------------------------------------------------------------------------
(* extraction/company_extractor.py                                         *)

COMMON_EMAIL_DOMAINS == {
    <<"g","m","a","i","l",".","c","o","m">>, <<"o","u","t","l","o","o","k",".","c","o","m">>, <<"h","o","t","m","a","i","l",".","c","o","m">>, <<"y","a","h","o","o",".","c","o","m">>, <<"i","c","l","o","u","d",".","c","o","m">>,
    <<"p","r","o","t","o","n",".","m","e">>, <<"p","r","o","t","o","n","m","a","i","l",".","c","o","m">>, <<"a","o","l",".","c","o","m">>, <<"z","o","h","o",".","c","o","m">> }

GOOGLE_DOMAINS == { <<"g","o","o","g","l","e",".","c","o","m">>, <<"d","o","c","s",".","g","o","o","g","l","e",".","c","o","m">>, <<"f","o","r","m","s",".","g","l","e">>, <<"d","r","i","v","e",".","g","o","o","g","l","e",".","c","o","m">> }

NON_COMPANY_DOMAINS == {
    <<"g","r","e","e","n","h","o","u","s","e",".","i","o">>, <<"l","e","v","e","r",".","c","o">>, <<"w","o","r","k","d","a","y",".","c","o","m">>, <<"m","y","w","o","r","k","d","a","y",".","c","o","m">>,
    <<"s","u","c","c","e","s","s","f","a","c","t","o","r","s",".","c","o","m">>, <<"s","m","a","r","t","r","e","c","r","u","i","t","e","r","s",".","c","o","m">>, <<"t","a","l","e","n","t",".","c","o","m">>,
    <<"s","e","n","d","g","r","i","d",".","n","e","t">>, <<"m","a","i","l","c","h","i","m","p",".","c","o","m">>, <<"s","p","a","r","k","p","o","s","t","m","a","i","l",".","c","o","m">>,
    <<"c","a","m","p","a","i","g","n","-","a","r","c","h","i","v","e",".","c","o","m">>, <<"h","u","b","s","p","o","t","e","m","a","i","l",".","n","e","t">>, <<"h","s","-","s","i","t","e","s",".","c","o","m">>,
    <<"a","m","a","z","o","n","a","w","s",".","c","o","m">>, <<"c","l","o","u","d","f","r","o","n","t",".","n","e","t">>, <<"l","n","k","d",".","i","n">>, <<"b","i","t",".","l","y">>, <<"t",".","c","o">> }

STOP_ORGS == {
    <<"b","i","t","s"," ","p","i","l","a","n","i">>, <<"b","i","t","s">>, <<"p","l","a","c","e","m","e","n","t"," ","u","n","i","t">>, <<"c","a","r","e","e","r"," ","s","e","r","v","i","c","e","s">>, <<"i","n","t","e","r","n","s","h","i","p"," ","c","e","l","l">>,
    <<"h","u","m","a","n"," ","r","e","s","o","u","r","c","e","s">>, <<"h","r"," ","t","e","a","m">>, <<"h","r">>, <<"t","a","l","e","n","t"," ","a","c","q","u","i","s","i","t","i","o","n">>, <<"r","e","c","r","u","i","t","m","e","n","t">>, <<"r","e","c","r","u","i","t","e","r">>,
    <<"t","e","a","m">>, <<"a","l","e","r","t","s">>, <<"n","e","w","s","l","e","t","t","e","r">>, <<"d","i","g","e","s","t">>, <<"n","o"," ","r","e","p","l","y">>, <<"n","o","r","e","p","l","y">>,
    <<"u","p","i">>, <<"o","t","p">>, <<"i","n","v","o","i","c","e">>, <<"s","t","a","t","e","m","e","n","t">>, <<"b","a","n","k">> }

\* the labels of PATTERNS[0..2] and the lead words of PATTERNS[3..4]
LABEL_PATTERNS == << <<"c","o","m","p","a","n","y">>, <<"o","r","g","a","n","i","z","a","t","i","o","n">>, <<"e","m","p","l","o","y","e","r">> >>
ATWITH_PATTERNS == << <<"i","n","t","e","r","n","s","h","i","p">>, <<"o","p","p","o","r","t","u","n","i","t","y">> >>

Letters == Range(UpperChars) \cup Range(LowerChars)

\* the class [A-Za-z0-9&.\- ]
NameClass == Letters \cup Range(DigitChars) \cup {"&", ".", "-", " "}

WeightSubject == 6
WeightCompany == 9
WeightOrgEmployer == 8
WeightAtWith == 6
WeightDomain == 4
TrimMax == 80
PipeMin == 3
PipeMax == 60
GuessMin == 3

Candidate(name, score, kind, idx, dom) ==
    [name |-> name, score |-> score, source |-> [kind |-> kind, idx |-> idx, dom |-> dom]]

\* the least element of a non-empty set of integers, and the greatest
MinOf(S) == CHOOSE x \in S : \A y \in S : x <= y
MaxOf(S) == CHOOSE x \in S : \A y \in S : y <= x

\* the first position >= i of s that holds no whitespace (Len(s) + 1 if none)
SkipWS(s, i) ==
    LET stops == {k \in i..Len(s) : s[k] \notin WS}
    IN  IF stops = {} THEN Len(s) + 1 ELSE MinOf(stops)

\* the last position of the maximal run of characters of cls that starts at i
\* (i - 1 if s[i] is not in cls)
RunEnd(s, i, cls) ==
    LET stops == {k \in i..Len(s) : s[k] \notin cls}
    IN  IF stops = {} THEN Len(s) ELSE MinOf(stops) - 1

\* the separators of re.split(r"[\n\r\t]| - | — | – | \| ", s)
TrimSepChars == {"\n", "\r", "\t"}
TrimSepWords == { <<" ","-"," ">>, <<" ","U+2014"," ">>, <<" ","U+2013"," ">>, <<" ","|"," ">> }

_trim_noise(s) ==
    IF s = <<>> THEN <<>>
    ELSE LET cuts == {i \in 1..Len(s) :
                         s[i] \in TrimSepChars \/ \E w \in TrimSepWords : MatchAt(s, i, w)}
             seg  == Strip(IF cuts = {} THEN s ELSE SubSeq(s, 1, MinOf(cuts) - 1))
             t    == StripChars(seg, {" ", ".", ",", ":", ";", "!", "-"})
         IN  IF Len(t) > TrimMax THEN Strip(SubSeq(t, 1, TrimMax)) ELSE t

\* the group of (?:at|with)\s+([A-Z][A-Za-z0-9&.\- ]{2,}) matched with the
\* keyword at position i of s, or None; first is the class of the first
\* character, wordEnd asks for the closing \b
AtWithGroup(s, cmp, i, first, wordEnd) ==
    LET kws == {kw \in { <<"a","t">>, <<"w","i","t","h">> } : MatchAt(cmp, i, kw)}
    IN  IF kws = {} THEN None
        ELSE LET kw == CHOOSE k \in kws : TRUE
                 p  == i + Len(kw)
                 j  == SkipWS(s, p)
             IN  IF j = p \/ j > Len(s) \/ s[j] \notin first THEN None
                 ELSE LET hi   == RunEnd(s, j + 1, NameClass)
                          ends == {k \in (j + 2)..hi : ~wordEnd \/ IsBoundary(s, k)}
                      IN  IF ends = {} THEN None ELSE <<j, MaxOf(ends)>>

\* re.search(r"\b(?:at|with)\s+([A-Z][A-Za-z0-9&.\- ]{2,})\b", s).group(1), or None
SubjectAtWith(s) ==
    LET starts == {i \in 1..Len(s) :
                      IsBoundary(s, i - 1) /\ AtWithGroup(s, s, i, Range(UpperChars), TRUE) # None}
    IN  IF starts = {} THEN None
        ELSE LET g == AtWithGroup(s, s, MinOf(starts), Range(UpperChars), TRUE)
             IN  SubSeq(s, g[1], g[2])

\* s.split("|", 1)[0]
BeforePipe(s) == SubSeq(s, 1, MinOf({i \in 1..Len(s) : s[i] = "|"}) - 1)

_extract_from_subject(subject) ==
    LET s    == Strip(subject)
        m    == SubjectAtWith(s)
        out1 == IF m = None THEN <<>> ELSE <<Strip(m)>>
        left == IF "|" \in Range(s) THEN Strip(BeforePipe(s)) ELSE <<>>
        out2 == IF "|" \in Range(s) /\ PipeMin <= Len(left) /\ Len(left) <= PipeMax
                THEN <<left>> ELSE <<>>
        out  == out1 \o out2
    IN  SelectSeq([k \in 1..Len(out) |-> _trim_noise(out[k])], LAMBDA x : x # <<>>)

\* the groups of re.finditer(r"\bLabel\s*:\s*(.+)", body, IGNORECASE), from position i
RECURSIVE LabelGroupsFrom(_, _, _, _)
LabelGroupsFrom(b, lb, label, i) ==
    IF i > Len(b) THEN <<>>
    ELSE IF MatchAt(lb, i, label) /\ IsBoundary(b, i - 1)
         THEN LET q == SkipWS(b, i + Len(label))
              IN  IF q <= Len(b) /\ b[q] = ":"
                  THEN LET r == SkipWS(b, q + 1)
                       IN  IF r > Len(b)
                           THEN <<>>   \* at most a match of blanks, dropped by the caller
                           ELSE LET e == RunEnd(b, r, Range(b) \ {"\n"})
                                IN  <<SubSeq(b, r, e)>> \o LabelGroupsFrom(b, lb, label, e + 1)
                  ELSE LabelGroupsFrom(b, lb, label, i + 1)
         ELSE LabelGroupsFrom(b, lb, label, i + 1)

\* the groups of re.finditer(r"\bWord\s+(?:at|with)\s+([A-Z][A-Za-z0-9&.\- ]{2,})",
\* body, IGNORECASE), from position i
RECURSIVE AtWithGroupsFrom(_, _, _, _)
AtWithGroupsFrom(b, lb, word, i) ==
    IF i > Len(b) THEN <<>>
    ELSE IF MatchAt(lb, i, word) /\ IsBoundary(b, i - 1)
         THEN LET p == i + Len(word)
                  j == SkipWS(b, p)
                  g == IF j = p THEN None ELSE AtWithGroup(b, lb, j, Letters, FALSE)
              IN  IF g = None THEN AtWithGroupsFrom(b, lb, word, i + 1)
                  ELSE <<SubSeq(b, g[1], g[2])>> \o AtWithGroupsFrom(b, lb, word, g[2] + 1)
         ELSE AtWithGroupsFrom(b, lb, word, i + 1)

\* URL_RE.findall(body): the matches of https?://[^\s<>()]+, from position i
UrlStop == WS \cup {"<", ">", "(", ")"}

UrlPrefix(lb, i) ==
    IF MatchAt(lb, i, <<"h","t","t","p","s",":","/","/">>) THEN 8 ELSE IF MatchAt(lb, i, <<"h","t","t","p",":","/","/">>) THEN 7 ELSE 0

RECURSIVE UrlsFrom(_, _, _)
UrlsFrom(b, lb, i) ==
    IF i > Len(b) THEN <<>>
    ELSE LET pre == UrlPrefix(lb, i)
             e   == RunEnd(b, i + pre, Range(b) \ UrlStop)
         IN  IF pre = 0 \/ e < i + pre THEN UrlsFrom(b, lb, i + 1)
             ELSE <<SubSeq(b, i, e)>> \o UrlsFrom(b, lb, e + 1)

\* the prefix of s before the first character of cs
Before(s, cs) ==
    LET cuts == {i \in 1..Len(s) : s[i] \in cs}
    IN  IF cuts = {} THEN s ELSE SubSeq(s, 1, MinOf(cuts) - 1)

\* urlparse(url).netloc of an http(s) URL; None where urlparse raises
Netloc(url) ==
    LET n == Before(SubSeq(url, UrlPrefix(Lower(url), 1) + 1, Len(url)), {"/", "?", "#"})
    IN  IF ("[" \in Range(n)) # ("]" \in Range(n)) THEN None ELSE n

StripWww(d) == IF MatchAt(d, 1, <<"w","w","w",".">>) THEN SubSeq(d, 5, Len(d)) ELSE d

\* the domain a URL of the body contributes, <<>> if none
UrlDomain(url) ==
    IF Netloc(url) = None THEN <<>>
    ELSE StripWww(Before(Lower(Netloc(url)), {":"}))

\* doms: the sender's domain and the domains of the URLs of the body
Doms(body_text, from_email) ==
    LET urls == CHOOSE us \in {UrlsFrom(body_text, lb, 1) : lb \in {Lower(body_text)}} : TRUE
        fromD == IF from_email # None /\ "@" \in Range(from_email)
                 THEN {Strip(Lower(AfterAt(from_email)))} ELSE {}
    IN  fromD \cup ({UrlDomain(urls[k]) : k \in 1..Len(urls)} \ {<<>>})

\* s.split(c)
RECURSIVE SplitOn(_, _)
SplitOn(s, c) ==
    LET cuts == {i \in 1..Len(s) : s[i] = c}
    IN  IF cuts = {} THEN <<s>>
        ELSE <<SubSeq(s, 1, MinOf(cuts) - 1)>> \o SplitOn(SubSeq(s, MinOf(cuts) + 1, Len(s)), c)

\* "c".join(parts)
RECURSIVE JoinWith(_, _)
JoinWith(parts, c) ==
    IF parts = <<>> THEN <<>>
    ELSE IF Len(parts) = 1 THEN parts[1]
    ELSE parts[1] \o <<c>> \o JoinWith(Tail(parts), c)

\* the public suffixes the bundled suffix list holds, among those of the model's domains
PublicSuffixes == { << <<"c","o","m">> >>, << <<"i","n">> >>, << <<"i","o">> >>, << <<"n","e","t">> >>, << <<"c","o">>, <<"i","n">> >> }

\* tldextract's split of a host name into subdomain, domain and suffix
_TLDX(d) ==
    LET L  == SplitOn(d, ".")
        n  == Len(L)
        ks == {k \in 1..n : SubSeq(L, n - k + 1, n) \in PublicSuffixes}
        k  == IF ks = {} THEN 0 ELSE MaxOf(ks)
    IN  [subdomain |-> IF n - k >= 2 THEN JoinWith(SubSeq(L, 1, n - k - 1), ".") ELSE <<>>,
         domain    |-> IF n - k >= 1 THEN L[n - k] ELSE <<>>,
         suffix    |-> JoinWith(SubSeq(L, n - k + 1, n), ".")]

GenericDomains == { <<"b","a","n","k">>, <<"c","o">>, <<"c","o","m">>, <<"o","r","g">>, <<"n","e","t">>, <<"e","d","u">>, <<"g","o","v">>, <<"n","i","c">>, <<"m","a","i","l">>, <<"e","m","a","i","l">>, <<"a","l","e","r","t","s">> }

UpperChar(c) ==
    IF c \in Range(LowerChars)
    THEN UpperChars[CHOOSE i \in 1..Len(LowerChars) : LowerChars[i] = c]
    ELSE c

\* str.capitalize()
Capitalize(w) == [i \in 1..Len(w) |-> IF i = 1 THEN UpperChar(w[1]) ELSE LowerChar(w[i])]

_domain_to_company_guess(domain) ==
    LET d0 == Strip(Lower(domain)) IN
    IF d0 = <<>> THEN None
    ELSE LET d     == StripWww(d0)
             ext   == _TLDX(d)
             base0 == Strip(ext.domain)
             base1 == IF base0 \in GenericDomains /\ ext.subdomain # <<>>
                      THEN LET subs == SplitOn(ext.subdomain, ".") IN subs[Len(subs)]
                      ELSE base0
             base2 == SelectSeq(base1, LAMBDA c :
                          c \in Range(LowerChars) \cup Range(DigitChars) \cup {"-"})
             base  == Strip(ReplaceChar(base2, "-", <<" ">>))
             words == Split(base)
         IN  IF base = <<>> \/ Len(base) < GuessMin THEN None
             ELSE JoinSp([k \in 1..Len(words) |-> Capitalize(words[k])])

\* whether the domain loop skips dom before guessing a name
SkippedDomain(dom) ==
    \/ dom = <<>>
    \/ dom \in COMMON_EMAIL_DOMAINS
    \/ \E x \in GOOGLE_DOMAINS : EndsWith(dom, x)
    \/ \E x \in NON_COMPANY_DOMAINS : EndsWith(dom, x)

\* the weight of PATTERNS[idx]
PatternScore(idx) ==
    IF idx = 0 THEN WeightCompany ELSE IF idx \in {1, 2} THEN WeightOrgEmployer ELSE WeightAtWith

\* the groups PATTERNS[idx].finditer(body) yields, in order (the lower-cased body
\* is computed once, for the case-insensitive comparisons)
PatternGroups(body, idx) ==
    CHOOSE gs \in {IF idx <= 2
                   THEN LabelGroupsFrom(body, lb, LABEL_PATTERNS[idx + 1], 1)
                   ELSE AtWithGroupsFrom(body, lb, ATWITH_PATTERNS[idx - 2], 1) :
                   lb \in {Lower(body)}} : TRUE

\* the candidates of one body pattern: each group stripped, trimmed, kept if non-empty
PatternCands(body, idx) ==
    LET gs   == PatternGroups(body, idx)
        vals == [k \in 1..Len(gs) |-> _trim_noise(Strip(gs[k]))]
        kept == SelectSeq(vals, LAMBDA v : v # <<>>)
    IN  [k \in 1..Len(kept) |-> Candidate(kept[k], PatternScore(idx), "body_pattern", idx, <<>>)]

\* the candidates of the domains, visited in the given order
RECURSIVE DomainCands(_)
DomainCands(order) ==
    IF order = <<>> THEN <<>>
    ELSE LET dom == Head(order)
             guessed == _domain_to_company_guess(dom)
         IN  (IF SkippedDomain(dom) \/ guessed = None THEN <<>>
              ELSE <<Candidate(guessed, WeightDomain, "domain", 0, dom)>>)
             \o DomainCands(Tail(order))

\* cands after the subject hints and the body patterns
TextCands(subject, body_text) ==
    LET hits == _extract_from_subject(subject)
    IN  [k \in 1..Len(hits) |-> Candidate(hits[k], WeightSubject, "subject", 0, <<>>)]
        \o PatternCands(body_text, 0) \o PatternCands(body_text, 1) \o PatternCands(body_text, 2)
        \o PatternCands(body_text, 3) \o PatternCands(body_text, 4)

\* a mutant: candidates are keyed by their lower-cased display name
DisplayKey(disp) == Lower(disp)

\* norm, the key of best_by_norm
DedupeKey(disp) == normalize_company_name(disp)

\* a mutant: only an empty key is discarded, the stop-list is not consulted
DiscardedIfEmpty(norm) == norm = <<>>

\* if not norm: continue; if norm in STOP_ORGS: continue
Discarded(norm) == norm = <<>> \/ norm \in STOP_ORGS

\* a mutant: a later candidate of equal weight replaces the kept one
ReplacesOnTie(c, prev) == c.score >= prev.score

\* c.score > prev.score
Replaces(c, prev) == c.score > prev.score

\* best_by_norm after the candidates from position i on; a dict keeps the
\* position of a key's first insertion
RECURSIVE DedupeFrom(_, _, _)
DedupeFrom(cands, i, best) ==
    IF i > Len(cands) THEN best
    ELSE LET c    == cands[i]
             disp == clean_display_name(c.name)
             norm == DedupeKey(disp)
             at   == {k \in 1..Len(best) : best[k].norm = norm}
             kept == [norm |-> norm, cand |-> [c EXCEPT !.name = disp]]
         IN  IF Discarded(norm)
             THEN DedupeFrom(cands, i + 1, best)
             ELSE IF at = {}
             THEN DedupeFrom(cands, i + 1, Append(best, kept))
             ELSE IF Replaces(c, best[MinOf(at)].cand)
             THEN DedupeFrom(cands, i + 1, [best EXCEPT ![MinOf(at)] = kept])
             ELSE DedupeFrom(cands, i + 1, best)

\* a mutant: the values are returned in the order of the dict, unsorted
Unsorted(cs) == cs

\* sorted(values, key=score, reverse=True): stable, highest score first
RECURSIVE SortByScore(_)
SortByScore(cs) ==
    IF cs = <<>> THEN <<>>
    ELSE LET top   == MaxOf({cs[k].score : k \in 1..Len(cs)})
         IN  SelectSeq(cs, LAMBDA c : c.score = top)
             \o SortByScore(SelectSeq(cs, LAMBDA c : c.score # top))

\* the orders in which a set can be iterated
Orders(S) == {p \in [1..Cardinality(S) -> S] : \A i, j \in 1..Cardinality(S) : p[i] = p[j] => i = j}

FilterDedupe(cands) ==
    LET best == DedupeFrom(cands, 1, <<>>)
    IN  SortByScore([k \in 1..Len(best) |-> best[k].cand])

\* cands before step 4: the subject hits, the body patterns, then the domains,
\* one list for each order in which the set of domains is iterated
RawCandidates(subject, body_text, from_email) ==
    UNION {{text \o DomainCands(order) : order \in Orders(Doms(body_text, from_email))} :
           text \in {TextCands(subject, body_text)}}

\* The lists extract_company_candidates can return: one for each order in which
\* the set of domains is iterated.
extract_company_candidates(subject, body_text, from_email) ==
    {FilterDedupe(raw) : raw \in RawCandidates(subject, body_text, from_email)}

ConfMin == 40
ConfMax == 95

\* confidences are in hundredths; an optional number is the set of its values
Result(name, conf, source) == [name |-> name, conf |-> conf, source |-> source]

NoSource == [kind |-> "none", idx |-> 0, dom |-> <<>>]

\* a mutant: the last candidate of the list is taken for the top one
PickLast(cands) ==
    IF cands = <<>> THEN Result(None, {}, NoSource)
    ELSE LET top == cands[Len(cands)]
             s10 == top.score * 10
             lo  == IF s10 > ConfMin THEN s10 ELSE ConfMin
         IN  Result(top.name, {IF lo < ConfMax THEN lo ELSE ConfMax}, top.source)

\* pick_best_company, given the candidates extract_company_candidates returned
PickBest(cands) ==
    IF cands = <<>> THEN Result(None, {}, NoSource)
    ELSE LET top == cands[1]
             s10 == top.score * 10
             lo  == IF s10 > ConfMin THEN s10 ELSE ConfMin
         IN  Result(top.name, {IF lo < ConfMax THEN lo ELSE ConfMax}, top.source)

pick_best_company(subject, body_text, from_email) ==
    {PickBest(cs) : cs \in extract_company_candidates(subject, body_text, from_email)}

-----------------------------------------------------------------------------
(* The emails of the model: subjects, bodies of whole lines, senders.      *)

MaxBodyLines == 2

SubjHeads == { <<>>, <<"I","n","t","e","r","n","s","h","i","p"," ","O","p","p","o","r","t","u","n","i","t","y"," ","a","t"," ">> }
SubjCores == { <<"R","a","z","o","r","p","a","y">>, <<"O","T","P">>, <<"O","T","P","l","e","s","s">>, <<"H","R"," ","T","e","a","m"," ","|"," ","R","o","l","e">> }
SubjectInputs == {h \o c : h \in SubjHeads, c \in SubjCores}

BodyLines == {
    <<"C","o","m","p","a","n","y",":"," ","R","a","z","o","r","p","a","y">>,
    <<"C","o","m","p","a","n","y",":"," ","R","a","z","o","r","p","a","y"," ","S","o","f","t","w","a","r","e"," ","P","v","t","."," ","L","t","d",".">>,
    <<"O","r","g","a","n","i","z","a","t","i","o","n",":"," ","A","c","m","e"," ","&"," ","C","o"," ","-"," ","B","e","n","g","a","l","u","r","u">>,
    <<"W","e"," ","a","r","e"," ","h","i","r","i","n","g","!"," ","A","p","p","l","y",":"," ","h","t","t","p","s",":","/","/","w","w","w",".","a","c","m","e",".","i","o","/","j","o","b","s","?","i","d","=","1">>,
    <<"I","n","t","e","r","n","s","h","i","p"," ","w","i","t","h"," ","R","A","Z","O","R","P","A","Y"," ","I","N","C",".">>,
    <<"u","n","s","u","b","s","c","r","i","b","e"," ","h","t","t","p","s",":","/","/","c","a","r","e","e","r","s",".","r","a","z","o","r","p","a","y",".","c","o","m","/","x">> }

\* bodies of up to MaxBodyLines different lines, in every order
BodyInputs ==
    {JoinWith(ls, "\n") : ls \in {q \in SeqsUpTo(BodyLines, MaxBodyLines) :
                                     \A i, j \in 1..Len(q) : q[i] = q[j] => i = j}}

FromInputs == { None, <<"h","r","@","r","a","z","o","r","p","a","y",".","c","o","m">>, <<"j","o","b","s","@","n","a","u","k","r","i",".","c","o","m">> }

Email(subject, body, from) == [subject |-> subject, body_text |-> body, from_email |-> from]

\* emails that meet the later rules of the lead filter
FilterEmails == {
    Email(<<"A","p","p","l","y"," ","w","i","t","h"," ","y","o","u","r"," ","C","V">>, <<"S","t","i","p","e","n","d",":"," ","2","0","k">>, None),
    Email(<<"A","p","p","l","y"," ","w","i","t","h"," ","y","o","u","r"," ","C","V">>, <<"S","t","i","p","e","n","d",":"," ","2","0","k","."," ","U","n","s","u","b","s","c","r","i","b","e">>, None),
    Email(<<"A","p","p","l","y"," ","w","i","t","h"," ","y","o","u","r"," ","C","V">>, <<"S","t","i","p","e","n","d",":"," ","2","0","k">>, <<"x","@","n","o","t","l","i","n","k","e","d","i","n",".","c","o","m">>),
    Email(<<"C","a","r","e","e","r"," ","f","a","i","r">>, <<"s","e","e"," ","y","o","u">>, <<"a","@","b",".","o","r","g">>),
    Email(<<"C","a","r","e","e","r"," ","f","a","i","r">>, <<"M","a","n","a","g","e"," ","p","r","e","f","e","r","e","n","c","e","s">>, None),
    Email(<<"S","h","o","r","t","l","i","s","t","e","d">>, <<"V","i","e","w"," ","i","n"," ","b","r","o","w","s","e","r">>, <<"N","a","u","k","r","i">>),
    Email(<<"S","p","e","c","i","a","l"," ","o","f","f","e","r",":"," ","c","o","d","i","n","g"," ","t","e","s","t">>, <<"A","p","p","l","y"," ","h","e","r","e">>, None) }

HeurEmails ==
    {Email(s, b, f) : s \in SubjectInputs, b \in BodyInputs, f \in FromInputs} \cup FilterEmails

NoDecision == Decision(FALSE, "unset", <<>>)

HeurIdle ==
    [email |-> Email(<<>>, <<>>, None), classified |-> FALSE, decision |-> NoDecision,
     extracted |-> FALSE, raw |-> <<>>, cands |-> <<>>, best |-> Result(None, {}, NoSource)]

-----------------------------------------------------------------------------
(* agents/extraction_agent.py and scripts/run_once.py: the model-based     *)
(* fallback extractor as the run loop sees it.                             *)

LlmSource == [kind |-> "llm", idx |-> 0, dom |-> <<>>]
NoResult == Result(None, {}, NoSource)

\* the JSON object parsed from the model's reply; {} when the reply has none
EmptyData == [is_lead |-> FALSE, company_name |-> None, confidence |-> {}]

\* a JSON object of another shape, such as {"is_lead": "yes", "company_name": ["Acme"],
\* "confidence": "high"}: a truthy is_lead, a name that is no string, a confidence
\* that float() refuses
MalformedData == [is_lead |-> TRUE, company_name |-> None, confidence |-> {}]

\* another, such as {"is_lead": "false", "company_name": "Acme Labs", "confidence": "high"}:
\* the name is a string
MalformedNamed == [is_lead |-> TRUE, company_name |-> <<"A","c","m","e"," ","L","a","b","s">>, confidence |-> {}]

\* extract_with_llm after chat_json returned: the fields of ExtractionResult the loop reads
ExtractionResult(data) ==
    LET company == IF data.company_name = None THEN None
                   ELSE clean_display_name(data.company_name)
        norm    == IF company = None \/ company = <<>> THEN None
                   ELSE normalize_company_name(company)
        conf0   == IF data.confidence = {} THEN 0 ELSE CHOOSE c \in data.confidence : TRUE
        conf    == IF conf0 < 0 THEN 0 ELSE IF conf0 > 100 THEN 100 ELSE conf0
    IN  [is_lead |-> data.is_lead, company_name |-> company,
         normalized_name |-> norm, confidence |-> conf]

\* _try_llm_extract once extract_with_llm returned res
LlmTriple(res) ==
    IF ~res.is_lead THEN NoResult
    ELSE IF res.company_name = None \/ res.company_name = <<>> THEN NoResult
    ELSE LET norm == IF res.normalized_name # None /\ res.normalized_name # <<>>
                     THEN res.normalized_name
                     ELSE normalize_company_name(res.company_name)
         IN  IF norm = <<>> THEN NoResult
             ELSE Result(res.company_name, {res.confidence}, LlmSource)

EscalateBelow == 60

\* a mutant: a confidence of exactly 0.60 escalates too
needs_llm_inclusive(company_name, conf) ==
    \/ company_name = None \/ company_name = <<>>
    \/ conf = {} \/ \E c \in conf : c <= EscalateBelow
    \/ normalize_company_name(company_name) = <<>>

\* a mutant: only a missing company escalates
needs_llm_unnamed_only(company_name, conf) ==
    company_name = None \/ company_name = <<>>

\* needs_llm, step 3 of the loop body
needs_llm(company_name, conf) ==
    \/ company_name = None \/ company_name = <<>>
    \/ conf = {} \/ \E c \in conf : c < EscalateBelow
    \/ normalize_company_name(company_name) = <<>>

\* a mutant: a rejected email goes on to extraction
after_filter_no_skip(should_process) == "extract"

\* where the loop body goes after the lead filter
after_filter(should_process) == IF should_process THEN "extract" ELSE "next"

-----------------------------------------------------------------------------
(* storage/crud.py over storage/db.py's tables. A table is the sequence of *)
(* its rows, a row's AUTOINCREMENT id its position.                        *)

EmailRowOf(emails, gmail_message_id) ==
    LET at == {k \in 1..Len(emails) : emails[k].gmail_message_id = gmail_message_id}
    IN  IF at = {} THEN 0 ELSE MinOf(at)

\* a mutant: INSERT OR REPLACE, the row of a known message starts over unprocessed
upsert_email_replace(emails, gmail_message_id) ==
    IF EmailRowOf(emails, gmail_message_id) # 0
    THEN [emails EXCEPT ![EmailRowOf(emails, gmail_message_id)].processed = 0]
    ELSE Append(emails, [gmail_message_id |-> gmail_message_id, processed |-> 0])

\* upsert_email: INSERT OR IGNORE, then the row's id
upsert_email(emails, gmail_message_id) ==
    IF EmailRowOf(emails, gmail_message_id) # 0 THEN emails
    ELSE Append(emails, [gmail_message_id |-> gmail_message_id, processed |-> 0])

mark_email_processed(emails, email_id) == [emails EXCEPT ![email_id].processed = 1]

CompanyRowOf(companies, normalized_name) ==
    LET at == {k \in 1..Len(companies) : companies[k].normalized_name = normalized_name}
    IN  IF at = {} THEN 0 ELSE MinOf(at)

\* a mutant: the existing row is looked up by its display name
upsert_company_by_name(companies, name, normalized_name) ==
    IF \E k \in 1..Len(companies) : companies[k].name = name THEN companies
    ELSE Append(companies, [name |-> name, normalized_name |-> normalized_name])

\* upsert_company: the table afterwards; the id is CompanyRowOf of the result
upsert_company(companies, name, normalized_name) ==
    LET id == CompanyRowOf(companies, normalized_name)
    IN  IF id # 0
        THEN [companies EXCEPT ![id].name = IF Len(name) > Len(@) THEN name ELSE @]
        ELSE Append(companies, [name |-> name, normalized_name |-> normalized_name])

\* link_email_company: INSERT OR IGNORE on the key (email_id, company_id)
link_email_company(links, email_id, company_id, confidence, source) ==
    IF \E l \in links : l.email_id = email_id /\ l.company_id = company_id THEN links
    ELSE links \cup {[email_id |-> email_id, company_id |-> company_id,
                      confidence |-> confidence, source |-> source]}

-----------------------------------------------------------------------------
(* scoring/rules.py. An optional number is the set of its values ({} for   *)
(* None); the profile confidence is in hundredths.                         *)

BITS_RELEVANT_KEYWORDS == {
    <<"s","o","f","t","w","a","r","e">>, <<"t","e","c","h","n","o","l","o","g","y">>, <<"i","n","t","e","r","n","e","t">>, <<"c","l","o","u","d">>, <<"a","i">>, <<"m","a","c","h","i","n","e"," ","l","e","a","r","n","i","n","g">>, <<"e","l","e","c","t","r","o","n","i","c","s">>,
    <<"s","e","m","i","c","o","n","d","u","c","t","o","r">>, <<"t","e","l","e","c","o","m","m","u","n","i","c","a","t","i","o","n","s">>, <<"r","o","b","o","t","i","c","s">>, <<"d","a","t","a">>, <<"a","n","a","l","y","t","i","c","s">>, <<"c","y","b","e","r","s","e","c","u","r","i","t","y">>,
    <<"f","i","n","a","n","c","i","a","l">>, <<"b","a","n","k">>, <<"f","i","n","t","e","c","h">>, <<"p","a","y","m","e","n","t","s">>, <<"i","n","v","e","s","t","m","e","n","t">>, <<"c","o","n","s","u","l","t","i","n","g">>,
    <<"h","e","a","l","t","h">>, <<"b","i","o","t","e","c","h">>, <<"p","h","a","r","m","a">>, <<"m","e","d","i","c","a","l">> }

METRO_HINTS == {
    <<"s","a","n"," ","f","r","a","n","c","i","s","c","o">>, <<"s","e","a","t","t","l","e">>, <<"n","e","w"," ","y","o","r","k">>, <<"l","o","n","d","o","n">>, <<"s","i","n","g","a","p","o","r","e">>, <<"b","e","n","g","a","l","u","r","u">>,
    <<"b","a","n","g","a","l","o","r","e">>, <<"m","u","m","b","a","i">>, <<"d","e","l","h","i">>, <<"h","y","d","e","r","a","b","a","d">>, <<"c","h","e","n","n","a","i">>, <<"p","u","n","e">>,
    <<"c","u","p","e","r","t","i","n","o">>, <<"l","o","s"," ","a","n","g","e","l","e","s">>, <<"t","o","r","o","n","t","o">>, <<"s","y","d","n","e","y">>, <<"m","e","l","b","o","u","r","n","e">> }

HIGH_IMPACT == { <<"a","i">>, <<"c","l","o","u","d">>, <<"p","l","a","t","f","o","r","m">>, <<"i","n","f","r","a","s","t","r","u","c","t","u","r","e">>, <<"r","e","s","e","a","r","c","h">>, <<"d","a","t","a">>, <<"a","n","a","l","y","t","i","c","s">> }
ROUTINE == { <<"r","e","t","a","i","l">>, <<"n","e","w","s">>, <<"p","u","b","l","i","s","h","i","n","g">>, <<"m","e","d","i","a">> }

\* x or ""
OrEmpty(x) == IF x = None THEN <<>> ELSE x

DigitVal(c) == (CHOOSE i \in 1..Len(DigitChars) : DigitChars[i] = c) - 1

\* int(digits) and 10 ** len(digits)
RECURSIVE DigitsVal(_)
DigitsVal(ds) == IF ds = <<>> THEN 0 ELSE DigitsVal(SubSeq(ds, 1, Len(ds) - 1)) * 10 + DigitVal(ds[Len(ds)])

RECURSIVE Pow10(_)
Pow10(k) == IF k = 0 THEN 1 ELSE 10 * Pow10(k - 1)

\* no match, and None for a revenue: a fraction with no denominator
NoRevenueMatch == [num |-> 0, den |-> 0, unit |-> "none"]
NoRevenue == [num |-> 0, den |-> 0]

\* The match of (\d+(\.\d+)?)\s*(billion|million) that starts at position i of t,
\* as the number num / den and the unit. e1 is where the integer part ends, e2
\* where the number ends, fdig the digits of the fraction.
FracEnd(t, e1) ==
    IF e1 + 2 <= Len(t) /\ t[e1 + 1] = "." /\ t[e1 + 2] \in Range(DigitChars)
    THEN RunEnd(t, e1 + 2, Range(DigitChars))
    ELSE e1

UnitAt(t, u) ==
    IF MatchAt(t, u, <<"b","i","l","l","i","o","n">>) THEN "billion"
    ELSE IF MatchAt(t, u, <<"m","i","l","l","i","o","n">>) THEN "million" ELSE "none"

RevenueNumber(t, i, e1, fdig, unit) ==
    IF unit = "none" THEN NoRevenueMatch
    ELSE [num  |-> DigitsVal(SubSeq(t, i, e1)) * Pow10(Len(fdig)) + DigitsVal(fdig),
          den  |-> Pow10(Len(fdig)),
          unit |-> unit]

RevenueMatchEnds(t, i, e1, e2) ==
    RevenueNumber(t, i, e1, IF e2 > e1 THEN SubSeq(t, e1 + 2, e2) ELSE <<>>,
                  UnitAt(t, SkipWS(t, e2 + 1)))

RevenueMatchAt(t, i) ==
    IF t[i] \notin Range(DigitChars) THEN NoRevenueMatch
    ELSE RevenueMatchEnds(t, i, RunEnd(t, i, Range(DigitChars)),
                          FracEnd(t, RunEnd(t, i, Range(DigitChars))))

\* a match in billions: millions are divided by 1000
RevenueBucket(m) ==
    IF m.unit = "million" THEN [num |-> m.num, den |-> m.den * 1000]
    ELSE [num |-> m.num, den |-> m.den]

\* re.search: the first position of t where the pattern matches
FirstRevenue(t, starts) ==
    IF starts = {} THEN NoRevenue ELSE RevenueBucket(RevenueMatchAt(t, MinOf(starts)))

RevenueIn(t) == FirstRevenue(t, {i \in 1..Len(t) : RevenueMatchAt(t, i) # NoRevenueMatch})

\* _parse_revenue_to_bucket: the revenue as the fraction num / den of a billion
_parse_revenue_to_bucket(revenue_text) ==
    IF revenue_text = None \/ revenue_text = <<>> THEN NoRevenue
    ELSE RevenueIn(SelectSeq(Lower(revenue_text), LAMBDA c : c # ","))

\* the fixed clock of one scoring call stands for datetime.now().year
score_age_1_to_5(founded_year, now_year) ==
    IF founded_year = {} \/ founded_year = {0} THEN 0
    ELSE LET age == now_year - (CHOOSE y \in founded_year : TRUE)
         IN  IF age < 1 THEN -1
             ELSE IF age >= 30 THEN 5
             ELSE IF age >= 15 THEN 4
             ELSE IF age >= 7 THEN 3
             ELSE IF age >= 2 THEN 2
             ELSE 1

score_employees_1_to_5(employees) ==
    IF employees = {} \/ employees = {0} THEN 0
    ELSE LET n == CHOOSE x \in employees : TRUE
         IN  IF n >= 100000 THEN 5
             ELSE IF n >= 10000 THEN 4
             ELSE IF n >= 1000 THEN 3
             ELSE IF n >= 100 THEN 2
             ELSE 1

\* thresholds 50, 5, 1 and 0.1 billion, the last as 1 / 10
FinancialBand(rev_b) ==
    IF rev_b = NoRevenue THEN 0
    ELSE IF rev_b.num >= 50 * rev_b.den THEN 5
    ELSE IF rev_b.num >= 5 * rev_b.den THEN 4
    ELSE IF rev_b.num >= 1 * rev_b.den THEN 3
    ELSE IF 10 * rev_b.num >= rev_b.den THEN 2
    ELSE 1

score_financial_stability_1_to_5(revenue_text) ==
    FinancialBand(_parse_revenue_to_bucket(revenue_text))

score_founders_profile_1_to_5(profile) == 0

\* f"{industry or ''} {description or ''}".lower()
ScoreText(industry, description) == Lower(OrEmpty(industry) \o <<" ">> \o OrEmpty(description))

\* a mutant: the check for an empty text is missing
score_domain_no_blank_check(industry, description) ==
    LET text == ScoreText(industry, description)
        hits == Cardinality({kw \in BITS_RELEVANT_KEYWORDS : Contains(text, kw)})
    IN  IF hits >= 6 THEN 5
        ELSE IF hits >= 4 THEN 4
        ELSE IF hits >= 2 THEN 3
        ELSE IF hits >= 1 THEN 2
        ELSE 1

score_domain_relevance_1_to_5(industry, description) ==
    LET text == ScoreText(industry, description)
        hits == Cardinality({kw \in BITS_RELEVANT_KEYWORDS : Contains(text, kw)})
    IN  IF Strip(text) = <<>> THEN 0
        ELSE IF hits >= 6 THEN 5
        ELSE IF hits >= 4 THEN 4
        ELSE IF hits >= 2 THEN 3
        ELSE IF hits >= 1 THEN 2
        ELSE 1

score_project_quality_1_to_5(industry, description) ==
    LET text  == ScoreText(industry, description)
        up    == IF \E k \in HIGH_IMPACT : Contains(text, k) THEN 1 ELSE 0
        down  == IF \E k \in ROUTINE : Contains(text, k) THEN 1 ELSE 0
        score == 3 + up - down
    IN  IF Strip(text) = <<>> THEN 0
        ELSE IF score < 1 THEN 1 ELSE IF score > 5 THEN 5 ELSE score

score_geo_1_to_5(hq_location) ==
    IF hq_location = None \/ hq_location = <<>> THEN 0
    ELSE IF \E m \in METRO_HINTS : Contains(Lower(hq_location), m) THEN 5
    ELSE 3

\* a mutant: the weights of domain and project are transposed
WeightsTransposed == [age |-> 10, employees |-> 10, financial |-> 10, founders |-> 5,
                      domain |-> 20, project |-> 25, geo |-> 20]

\* W, in percent
Weights == [age |-> 10, employees |-> 10, financial |-> 10, founders |-> 5,
            domain |-> 25, project |-> 20, geo |-> 20]

Dimensions == {"age", "employees", "financial", "founders", "domain", "project", "geo"}

\* a mutant: the average is taken over the dimensions that are present
WeightedSumOfPresent(sub) ==
    LET present == {d \in {"age", "employees", "financial", "founders", "domain", "project", "geo"} :
                       sub[d] # 0}
        SumOver[ds \in SUBSET present] ==
            IF ds = {} THEN [num |-> 0, den |-> 0]
            ELSE LET d == CHOOSE x \in ds : TRUE
                     rest == SumOver[ds \ {d}]
                 IN  [num |-> rest.num + sub[d] * Weights[d], den |-> rest.den + Weights[d]]
    IN  IF present = {} THEN 0
        ELSE 5 * ((SumOver[present].num * 20) \div SumOver[present].den)

\* the weighted sum; with the weights in percent it is 100 times weighted_1_to_5
WeightedSum(sub) ==
      sub.age * Weights.age
    + sub.employees * Weights.employees
    + sub.financial * Weights.financial
    + sub.founders * Weights.founders
    + sub.domain * Weights.domain
    + sub.project * Weights.project
    + sub.geo * Weights.geo

StrongFrom == 80
ModerateFrom == 60
WeakFrom == 40
LowConfidenceBelow == 60

\* a mutant: the label thresholds are exclusive
LabelExclusive(total) ==
    IF total > StrongFrom THEN "Strong"
    ELSE IF total > ModerateFrom THEN "Moderate"
    ELSE IF total > WeakFrom THEN "Weak"
    ELSE "Disqualified"

Label(total) ==
    IF total >= StrongFrom THEN "Strong"
    ELSE IF total >= ModerateFrom THEN "Moderate"
    ELSE IF total >= WeakFrom THEN "Weak"
    ELSE "Disqualified"

\* the sub-scores computed after the age check
SubScores(profile, age_score) ==
    [age       |-> age_score,
     employees |-> score_employees_1_to_5(profile.employees),
     financial |-> score_financial_stability_1_to_5(profile.revenue),
     founders  |-> score_founders_profile_1_to_5(profile),
     domain    |-> score_domain_relevance_1_to_5(profile.industry, profile.description),
     project   |-> score_project_quality_1_to_5(profile.industry, profile.description),
     geo       |-> score_geo_1_to_5(profile.hq_location)]

\* a mutant: no auto reject, the sentinel is scored like any sub-score
AgeRejectsNever(age_score) == FALSE

\* if age_score == -1
AgeRejects(age_score) == age_score = -1

\* a mutant: a profile of low confidence is labelled one step down
ScoredConfidenceGated(sub, sum, conf) ==
    [disqualified |-> Label(sum \div 5 - (IF conf < LowConfidenceBelow THEN 20 ELSE 0)) = "Disqualified",
     total_score_0_100 |-> sum \div 5,
     label |-> Label(sum \div 5 - (IF conf < LowConfidenceBelow THEN 20 ELSE 0)),
     low_confidence |-> conf < LowConfidenceBelow,
     profile_confidence |-> conf,
     subscores_1_to_5 |-> sub,
     weights |-> Weights,
     weighted_1_to_5_x100 |-> sum]

\* the result after the age check; total_score_0_100 = weighted_1_to_5 / 5 * 100
\* is a fifth of the weighted sum in percent
Scored(sub, sum, conf) ==
    [disqualified |-> Label(sum \div 5) = "Disqualified",
     total_score_0_100 |-> sum \div 5,
     label |-> Label(sum \div 5),
     low_confidence |-> conf < LowConfidenceBelow,
     profile_confidence |-> conf,
     subscores_1_to_5 |-> sub,
     weights |-> Weights,
     weighted_1_to_5_x100 |-> sum]

Weighted(sub, conf) == Scored(sub, WeightedSum(sub), conf)

\* profile.get("confidence") or 0.0
ConfidenceOf(profile) ==
    IF profile.confidence = {} THEN 0 ELSE CHOOSE c \in profile.confidence : TRUE

AfterAge(profile, age_score) ==
    IF AgeRejects(age_score)
    THEN [disqualified |-> TRUE, total_score_0_100 |-> 0, label |-> "Disqualified",
          reason |-> "Company age < 1 year (auto reject)"]
    ELSE Weighted(SubScores(profile, age_score), ConfidenceOf(profile))

compute_weighted_score(profile, now_year) ==
    AfterAge(profile, score_age_1_to_5(profile.founded_year, now_year))

-----------------------------------------------------------------------------
(* The company profiles of the model.                                      *)

Profile(fy, emp, rev, ind, hq, desc, conf) ==
    [founded_year |-> fy, employees |-> emp, revenue |-> rev, industry |-> ind,
     hq_location |-> hq, description |-> desc, confidence |-> conf]

\* the profile {}: every get() returns None
EmptyProfile == Profile({}, {}, None, None, None, None, {})

NowYears == {2019, 2026}
FoundedAges == {0, 1, 2, 7, 15, 30}
FoundedInputs(now_year) == {{}, {1990}} \cup {{now_year - a} : a \in FoundedAges}
EmployeeInputs == { {}, {0}, {99}, {50000} }
RevenueInputs == { None, <<"U","S","$","1","0"," ","b","i","l","l","i","o","n"," ","(","2","0","2","3",")">>, <<"U","S","$"," ","9","0","3"," ","m","i","l","l","i","o","n"," ","(","2","0","2","0",")">>, <<"n","o","t"," ","d","i","s","c","l","o","s","e","d">> }
IndustryInputs == { None, <<"c","l","o","u","d"," ","i","n","f","r","a","s","t","r","u","c","t","u","r","e"," ","s","o","f","t","w","a","r","e">>, <<"R","e","t","a","i","l">> }
DescriptionInputs == { None, <<>>, <<"A","I"," ","d","a","t","a"," ","a","n","a","l","y","t","i","c","s"," ","p","l","a","t","f","o","r","m"," ","f","o","r"," ","b","a","n","k","s">> }
HqInputs == { None, <<"B","e","n","g","a","l","u","r","u">>, <<"R","a","n","c","h","i">> }
ConfidenceInputs == { {}, {80}, {50} }

Profiles(now_year) ==
    {Profile(fy, emp, rev, ind, hq, desc, conf) :
        fy \in FoundedInputs(now_year), emp \in EmployeeInputs, rev \in RevenueInputs,
        ind \in IndustryInputs, hq \in HqInputs, desc \in DescriptionInputs,
        conf \in ConfidenceInputs}

ScoringIdle == [profile |-> EmptyProfile, now_year |-> 0, scored |-> FALSE,
                result |-> [label |-> "unset"], computed |-> {}]

\* the scoring batch at rest, as the other harnesses leave it
BatchIdle == [pc |-> "idle", use_llm_scoring |-> FALSE, now_year |-> 0, rows |-> <<>>, i |-> 0,
              scored |-> 0, skipped_no_profile |-> 0, files |-> <<>>, asked |-> <<>>,
              error |-> "none"]

\* chat_completions not called, as the other harnesses leave it
ChatIdle == [pc |-> "idle", base_url |-> FALSE, model |-> FALSE, max_retries |-> 0,
             todo |-> <<>>, seen |-> <<>>, slept |-> <<>>, out |-> "none"]

-----------------------------------------------------------------------------
(* The run loop at rest, as the harnesses below leave it.                   *)

NoHist == [verdict |-> "none", heur |-> NoResult, final |-> NoResult, steps |-> {}, llm_calls |-> 0,
           escalation |-> "none", reply |-> EmptyData, llm |-> NoResult]

RunIdle == [pc |-> "idle", runs |-> 0, queue |-> <<>>, email_id |-> 0,
            company_name |-> None, conf |-> {}, src |-> NoSource]

EmptyDb == [emails |-> <<>>, companies |-> <<>>, links |-> {}]

PipeStill ==
    /\ mailbox = <<>>
    /\ env = [llm_enabled |-> FALSE, configured |-> FALSE]
    /\ db = EmptyDb
    /\ run = RunIdle
    /\ hist = <<>>

-----------------------------------------------------------------------------
(* Canonicalizer harness: normalize_company_name and clean_display_name    *)
(* applied to display names built from fragments, with legal-entity suffix *)
(* tokens appended.                                                        *)

MaxNameFrags == 3
MaxSuffixes == 2

NameFrags == { <<"A","c">>, <<" ">>, <<"\t"," ">>, <<"&">>, <<"L","t","d",".">>, <<"c","o">>, <<"(","x",")">>, <<".">> }

NameExamples == { <<"A","c","m","e"," ","P","v","t","."," ","L","t","d",".">>, <<"A","C","M","E">>, <<"A"," ","&"," ","B"," ","C","o","r","p">> }

NameInputs == {Concat(fs) : fs \in SeqsUpTo(NameFrags, MaxNameFrags)} \cup NameExamples

\* suffix tokens as they appear in display names, each after a separator
SuffixTails == { <<" ","L","t","d",".">>, <<"\t","P","V","T">>, <<" "," ","c","o",".">> }

CanonIdle == [called |-> FALSE, key |-> <<>>, key2 |-> <<>>, rawkey |-> <<>>, basekey |-> <<>>]

CanonStill == [base |-> <<>>, name |-> <<>>, tails |-> 0, out |-> CanonIdle]

InitCanon ==
    /\ canon \in {[base |-> b, name |-> b, tails |-> 0, out |-> CanonIdle] : b \in NameInputs}
    /\ heur = HeurIdle
    /\ PipeStill
    /\ scoring = ScoringIdle
    /\ batch = BatchIdle
    /\ chat = ChatIdle

\* a suffix token is appended to the display name
CanonAppend ==
    /\ canon.tails < MaxSuffixes
    /\ \E t \in SuffixTails :
         canon' = [canon EXCEPT !.name = @ \o t, !.tails = @ + 1, !.out = CanonIdle]
    /\ UNCHANGED <<heur, pipeVars, scoring, batch, chat>>

\* the identity keys of the name are computed
CanonCall ==
    /\ ~canon.out.called
    /\ canon' = [canon EXCEPT !.out =
         [called  |-> TRUE,
          key     |-> normalize_company_name(clean_display_name(canon.name)),
          key2    |-> normalize_company_name(clean_display_name(clean_display_name(canon.name))),
          rawkey  |-> normalize_company_name(canon.name),
          basekey |-> normalize_company_name(canon.base)]]
    /\ UNCHANGED <<heur, pipeVars, scoring, batch, chat>>

NextCanon == CanonAppend \/ CanonCall

SpecCanon == InitCanon /\ [][NextCanon]_vars

-----------------------------------------------------------------------------
(* Classifier and extractor harness: is_lead_email, extract_company_       *)
(* candidates and pick_best_company applied to one email.                  *)

InitHeur ==
    /\ heur \in {[HeurIdle EXCEPT !.email = e] : e \in HeurEmails}
    /\ canon = CanonStill
    /\ PipeStill
    /\ scoring = ScoringIdle
    /\ batch = BatchIdle
    /\ chat = ChatIdle

HeurClassify ==
    /\ ~heur.classified
    /\ \E d \in is_lead_email(heur.email.subject, heur.email.body_text, heur.email.from_email) :
         heur' = [heur EXCEPT !.classified = TRUE, !.decision = d]
    /\ UNCHANGED <<canon, pipeVars, scoring, batch, chat>>

HeurExtract ==
    /\ heur.classified
    /\ ~heur.extracted
    /\ \E raw \in RawCandidates(heur.email.subject, heur.email.body_text, heur.email.from_email) :
         \E cs \in {FilterDedupe(raw)} :
           heur' = [heur EXCEPT !.extracted = TRUE, !.raw = raw, !.cands = cs, !.best = PickBest(cs)]
    /\ UNCHANGED <<canon, pipeVars, scoring, batch, chat>>

NextHeur == HeurClassify \/ HeurExtract

SpecHeur == InitHeur /\ [][NextHeur]_vars

-----------------------------------------------------------------------------
(* scripts/run_once.py: main() and its loop over the fetched messages.     *)

MaxEmails == 2
MaxRuns == 2

PipeEmails == {
    Email(<<"I","n","t","e","r","n","s","h","i","p"," ","O","p","p","o","r","t","u","n","i","t","y"," ","a","t"," ","R","a","z","o","r","p","a","y">>, <<"C","o","m","p","a","n","y",":"," ","R","a","z","o","r","p","a","y"," ","S","o","f","t","w","a","r","e"," ","P","v","t","."," ","L","t","d",".">>, <<"h","r","@","r","a","z","o","r","p","a","y",".","c","o","m">>),
    Email(<<"Y","o","u","r"," ","O","T","P"," ","f","o","r"," ","l","o","g","i","n">>, <<"C","o","m","p","a","n","y",":"," ","R","a","z","o","r","p","a","y">>, None),
    Email(<<"W","e"," ","a","r","e"," ","h","i","r","i","n","g">>, <<"A","p","p","l","y",":"," ","h","t","t","p","s",":","/","/","w","w","w",".","a","c","m","e",".","i","o","/","j","o","b","s">>, <<"a","@","g","m","a","i","l",".","c","o","m">>),
    Email(<<"I","n","t","e","r","n","s","h","i","p"," ","a","t"," ","R","A","Z","O","R","P","A","Y"," ","I","N","C",".">>, <<"s","e","e"," ","y","o","u">>, None),
    Email(<<"I","n","t","e","r","n","s","h","i","p"," ","a","t"," ","H","R"," ","T","e","a","m">>, <<"s","e","e"," ","y","o","u">>, None),
    Email(<<"I","n","t","e","r","v","i","e","w"," ","s","h","o","r","t","l","i","s","t">>, <<"B","r","i","n","g"," ","y","o","u","r"," ","l","a","p","t","o","p">>, <<"x","@","g","m","a","i","l",".","c","o","m">>) }

\* what the model service can make of a request: the parsed JSON object
LlmData == {
    EmptyData,
    [is_lead |-> TRUE,  company_name |-> <<"A","c","m","e"," "," ","L","a","b","s"," ","P","v","t"," ","L","t","d">>, confidence |-> {90}],
    [is_lead |-> TRUE,  company_name |-> <<"H","R"," ","T","e","a","m">>,            confidence |-> {80}],
    [is_lead |-> TRUE,  company_name |-> <<"I","n","c",".">>,               confidence |-> {70}],
    [is_lead |-> TRUE,  company_name |-> <<" ">>,                  confidence |-> {70}],
    [is_lead |-> TRUE,  company_name |-> None,                 confidence |-> {50}],
    [is_lead |-> FALSE, company_name |-> <<"R","a","z","o","r","p","a","y">>,           confidence |-> {95}],
    [is_lead |-> TRUE,  company_name |-> <<"R","a","z","o","r","p","a","y"," ","I","n","c">>,       confidence |-> {150}],
    MalformedData, MalformedNamed }

Envs == { [llm_enabled |-> FALSE, configured |-> TRUE],
          [llm_enabled |-> TRUE,  configured |-> TRUE],
          [llm_enabled |-> TRUE,  configured |-> FALSE] }

Init ==
    /\ mailbox \in [1..MaxEmails -> PipeEmails]
    /\ env \in Envs
    /\ db = EmptyDb
    /\ run = RunIdle
    /\ hist = <<>>
    /\ canon = CanonStill
    /\ heur = HeurIdle
    /\ scoring = ScoringIdle
    /\ batch = BatchIdle
    /\ chat = ChatIdle

CurEmail == mailbox[db.emails[run.email_id].gmail_message_id]

\* the loop body is left for the next message
NextMessage(r) == [r EXCEPT !.pc = "loop", !.queue = Tail(@), !.email_id = 0,
                            !.company_name = None, !.conf = {}, !.src = NoSource]

\* main() up to the loop: the message ids of the mailbox are fetched
StartRun ==
    /\ run.pc = "idle"
    /\ run.runs < MaxRuns
    /\ run' = [run EXCEPT !.pc = "loop", !.runs = @ + 1,
                          !.queue = [k \in 1..Len(mailbox) |-> k]]
    /\ UNCHANGED <<mailbox, env, db, hist, canon, heur, scoring, batch, chat>>

\* the loop ends: the summary is printed
EndRun ==
    /\ run.pc = "loop"
    /\ run.queue = <<>>
    /\ run' = [run EXCEPT !.pc = "idle"]
    /\ UNCHANGED <<mailbox, env, db, hist, canon, heur, scoring, batch, chat>>

\* a message is fetched, parsed and upserted; an email already processed is skipped
FetchEmail ==
    /\ run.pc = "loop"
    /\ run.queue # <<>>
    /\ LET emails == upsert_email(db.emails, Head(run.queue))
           id     == EmailRowOf(emails, Head(run.queue))
       IN  /\ db' = [db EXCEPT !.emails = emails]
           /\ hist' = IF Len(emails) > Len(hist) THEN Append(hist, NoHist) ELSE hist
           /\ run' = IF emails[id].processed = 1 THEN NextMessage(run)
                     ELSE [run EXCEPT !.pc = "filter", !.email_id = id]
    /\ UNCHANGED <<mailbox, env, canon, heur, scoring, batch, chat>>

\* step 1: the lead filter; a rejected email is marked processed and left
LeadFilter ==
    /\ run.pc = "filter"
    /\ \E d \in is_lead_email(CurEmail.subject, CurEmail.body_text, CurEmail.from_email) :
         /\ hist' = [hist EXCEPT ![run.email_id].verdict =
                        IF d.should_process THEN "accepted" ELSE "rejected"]
         /\ IF after_filter(d.should_process) = "next"
            THEN /\ db' = [db EXCEPT !.emails = mark_email_processed(@, run.email_id)]
                 /\ run' = NextMessage(run)
            ELSE /\ db' = db
                 /\ run' = [run EXCEPT !.pc = "extract"]
    /\ UNCHANGED <<mailbox, env, canon, heur, scoring, batch, chat>>

\* steps 2 and 3: the heuristic extraction, and whether to escalate
Heuristic ==
    /\ run.pc = "extract"
    /\ \E r \in pick_best_company(CurEmail.subject, CurEmail.body_text, CurEmail.from_email) :
         /\ run' = [run EXCEPT !.company_name = r.name, !.conf = r.conf, !.src = r.source,
                               !.pc = IF needs_llm(r.name, r.conf) THEN "llm" ELSE "store"]
         /\ hist' = [hist EXCEPT ![run.email_id].heur = r,
                                 ![run.email_id].steps = @ \cup {"extract"}]
    /\ UNCHANGED <<mailbox, env, db, canon, heur, scoring, batch, chat>>

\* a mutant: a call that raised is made a second time
LlmOutcomeRetried(invoked, called, triple, kind, data) ==
    [invoked |-> invoked, called |-> IF kind = "call_error" THEN called + 1 ELSE called,
     triple |-> triple, kind |-> kind, data |-> data]

\* What _try_llm_extract can do: whether extract_with_llm is invoked, how often
\* the model service is called (chat_json), and the triple returned.
LlmOutcome(invoked, called, triple, kind, data) ==
    [invoked |-> invoked, called |-> called, triple |-> triple, kind |-> kind, data |-> data]

\* how a reply of the model service reads to _safe_json_parse and extract_with_llm
ReplyKind(data) == IF data = EmptyData THEN "no_json"
                   ELSE IF data.confidence = {} THEN "malformed" ELSE "answer"

LlmOutcomes ==
    IF ~env.llm_enabled THEN {LlmOutcome(FALSE, 0, NoResult, "disabled", EmptyData)}
    ELSE {LlmOutcome(FALSE, 0, NoResult, "import_error", EmptyData)} \* the agent cannot be imported
         \cup (IF ~env.configured
               THEN {LlmOutcome(TRUE, 0, NoResult, "config_error", EmptyData)}  \* get_llm_config raises
               ELSE {LlmOutcome(TRUE, 1, NoResult, "call_error", EmptyData)}     \* the call raises
                    \cup {LlmOutcome(TRUE, 1, LlmTriple(ExtractionResult(d)), ReplyKind(d), d) :
                              d \in LlmData})

\* a mutant: whatever _try_llm_extract returned replaces the heuristic triple
after_llm_always(cur, triple) == triple

\* a mutant: the model's name is taken, the heuristic confidence and source are kept
after_llm_name_only(cur, triple) ==
    IF triple.name # None /\ triple.name # <<>>
    THEN Result(triple.name, cur.conf, cur.source) ELSE cur

\* the triple the loop goes on with after _try_llm_extract returned
after_llm(cur, triple) ==
    IF triple.name # None /\ triple.name # <<>> THEN triple ELSE cur

\* the escalation: _try_llm_extract, whose result replaces the heuristic one if it names a company
TryLLM ==
    /\ run.pc = "llm"
    /\ \E o \in LlmOutcomes :
         /\ \E fin \in {after_llm(Result(run.company_name, run.conf, run.src), o.triple)} :
                run' = [run EXCEPT !.pc = "store", !.company_name = fin.name,
                                   !.conf = fin.conf, !.src = fin.source]
         /\ hist' = [hist EXCEPT ![run.email_id].steps =
                        @ \cup {"try_llm"} \cup (IF o.invoked THEN {"extract_with_llm"} ELSE {}),
                                 ![run.email_id].llm_calls = @ + o.called,
                                 ![run.email_id].escalation = o.kind,
                                 ![run.email_id].reply = o.data,
                                 ![run.email_id].llm = o.triple]
    /\ UNCHANGED <<mailbox, env, db, canon, heur, scoring, batch, chat>>

\* step 4: the company is stored and linked; the email is marked processed
Store ==
    /\ run.pc = "store"
    /\ LET named == run.company_name # None /\ run.company_name # <<>>
           norm  == IF named THEN normalize_company_name(run.company_name) ELSE <<>>
           companies == upsert_company(db.companies, run.company_name, norm)
           company_id == CompanyRowOf(companies, norm)
       IN  IF named /\ norm # <<>>
           THEN /\ db' = [db EXCEPT
                       !.companies = companies,
                       !.links = link_email_company(@, run.email_id, company_id, run.conf, run.src),
                       !.emails = mark_email_processed(@, run.email_id)]
                /\ hist' = [hist EXCEPT ![run.email_id].steps = @ \cup {"upsert", "link"},
                                        ![run.email_id].final =
                                            Result(run.company_name, run.conf, run.src)]
           ELSE /\ db' = [db EXCEPT !.emails = mark_email_processed(@, run.email_id)]
                /\ hist' = [hist EXCEPT ![run.email_id].final =
                                            Result(run.company_name, run.conf, run.src)]
    /\ run' = NextMessage(run)
    /\ UNCHANGED <<mailbox, env, canon, heur, scoring, batch, chat>>

Next == StartRun \/ FetchEmail \/ LeadFilter \/ Heuristic \/ TryLLM \/ Store \/ EndRun

Spec == Init /\ [][Next]_vars

-----------------------------------------------------------------------------
(* Scoring harness: compute_weighted_score applied to one profile.         *)

InitScore ==
    /\ \E y \in NowYears :
         scoring \in {[ScoringIdle EXCEPT !.profile = p, !.now_year = y] : p \in Profiles(y)}
    /\ canon = CanonStill
    /\ heur = HeurIdle
    /\ PipeStill
    /\ batch = BatchIdle
    /\ chat = ChatIdle

\* one scoring call; computed names the sub-score functions it evaluated
ScoreProfile ==
    /\ ~scoring.scored
    /\ LET res == compute_weighted_score(scoring.profile, scoring.now_year)
       IN  scoring' = [scoring EXCEPT !.scored = TRUE, !.result = res,
                          !.computed = IF "subscores_1_to_5" \in DOMAIN res
                                       THEN Dimensions ELSE {"age"}]
    /\ UNCHANGED <<canon, heur, pipeVars, batch, chat>>

NextScore == ScoreProfile

SpecScore == InitScore /\ [][NextScore]_vars

-----------------------------------------------------------------------------
(* scripts/score_and_write_once.py and scoring/llm_scorer.py: main() and   *)
(* its loop over the companies, each scored by the rules or by the model   *)
(* service and written to a file of its own.                               *)

MaxCompanies == 2

\* raw_json of a company row: {} without a wikipedia profile, else the profile
RawInputs == {
    {},
    {EmptyProfile},
    {Profile({1990}, {50000}, <<"U","S","$","1","0"," ","b","i","l","l","i","o","n"," ","(","2","0","2","3",")">>, <<"c","l","o","u","d"," ","i","n","f","r","a","s","t","r","u","c","t","u","r","e"," ","s","o","f","t","w","a","r","e">>,
             <<"B","e","n","g","a","l","u","r","u">>, <<>>, {80})},
    {Profile({2026}, {12}, None, <<"f","o","o","d">>, <<"P","u","n","e">>, None, {50})} }

\* what chat_completions can do for one request: raise LLMError once its
\* attempts are used up, or return the content of the reply: text that is no
\* JSON, JSON that is no object, or a JSON object
ScoreReplies == {
    [kind |-> "transport_error", total |-> {}, label |-> "", confidence |-> {}, subs |-> <<>>],
    [kind |-> "not_json",        total |-> {}, label |-> "", confidence |-> {}, subs |-> <<>>],
    [kind |-> "not_object",      total |-> {}, label |-> "", confidence |-> {}, subs |-> <<>>],
    [kind |-> "object", total |-> {72}, label |-> "Moderate", confidence |-> {70},
     subs |-> [age |-> 5, employees |-> 4, financial |-> 3, founders |-> 2,
               domain |-> 4, project |-> 3, geo |-> 4]],
    [kind |-> "object", total |-> {}, label |-> "", confidence |-> {},
     subs |-> [age |-> 5, domain |-> 3]] }

Raised(error) == [raised |-> error, data |-> <<>>]
Returned(data) == [raised |-> "none", data |-> data]

\* a mutant: a reply that is no JSON is taken as the empty object
score_with_llm_lenient(reply) ==
    IF reply.kind = "transport_error" THEN Raised("LLMError")
    ELSE IF reply.kind = "not_json"
    THEN Returned([kind |-> "object", total |-> {}, label |-> "", confidence |-> {}, subs |-> <<>>])
    ELSE Returned(reply)

\* score_with_llm with USE_LLM_SCORING set: the LLMError of chat_completions
\* passes through, a content json.loads refuses raises LLMError
score_with_llm(reply) ==
    IF reply.kind = "transport_error" THEN Raised("LLMError")
    ELSE IF reply.kind = "not_json" THEN Raised("LLMError")
    ELSE Returned(reply)

_map_1to5_to_100(x) == IF x \in 1..5 THEN 20 * x ELSE 40

TotalWeights == [age |-> 10, employees |-> 10, financial |-> 10, founders |-> 5,
                 domain |-> 25, project |-> 20, geo |-> 20]

\* s of the fallback total, the dimensions taken one after the other
FallbackSum(subs, dims) ==
    LET Sum[ds \in SUBSET dims] ==
            IF ds = {} THEN 0
            ELSE LET k == CHOOSE x \in ds : TRUE
                 IN  Sum[ds \ {k}]
                     + TotalWeights[k] * _map_1to5_to_100(IF k \in DOMAIN subs THEN subs[k] ELSE 2)
    IN  Sum[dims]

\* the result main() builds from the object the model returned
LlmResult(data) ==
    [method |-> "llm",
     total_score_0_100 |-> IF data.total # {} THEN CHOOSE t \in data.total : TRUE
                           ELSE FallbackSum(data.subs, DOMAIN TotalWeights) \div 100,
     label |-> IF data.label = "" THEN "Medium" ELSE data.label,
     confidence |-> IF data.confidence = {} THEN 60 ELSE CHOOSE c \in data.confidence : TRUE,
     subscores_1_to_5 |-> data.subs]

\* the result of the deterministic path
RulesResult(profile, now_year) ==
    [method |-> "rules", rr |-> compute_weighted_score(profile, now_year)]

NoFile == [method |-> "none"]

InitBatch ==
    /\ \E n \in 1..MaxCompanies, llm \in BOOLEAN, y \in NowYears, rows \in [1..MaxCompanies -> RawInputs] :
         batch = [BatchIdle EXCEPT !.use_llm_scoring = llm, !.now_year = y,
                                   !.rows = SubSeq(rows, 1, n),
                                   !.files = [k \in 1..n |-> NoFile],
                                   !.asked = [k \in 1..n |-> "none"]]
    /\ canon = CanonStill
    /\ heur = HeurIdle
    /\ PipeStill
    /\ scoring = ScoringIdle
    /\ chat = ChatIdle

\* main() up to the loop: the company rows are read
BatchStart ==
    /\ batch.pc = "idle"
    /\ batch' = [batch EXCEPT !.pc = "loop", !.i = 1]
    /\ UNCHANGED <<canon, heur, pipeVars, scoring, chat>>

\* a company without a profile is skipped
SkipNoProfile ==
    /\ batch.pc = "loop"
    /\ batch.i <= Len(batch.rows)
    /\ batch.rows[batch.i] = {}
    /\ batch' = [batch EXCEPT !.skipped_no_profile = @ + 1, !.i = @ + 1]
    /\ UNCHANGED <<canon, heur, pipeVars, scoring, chat>>

\* the deterministic path: the rules score the profile and the file is written
ScoreWithRules ==
    /\ batch.pc = "loop"
    /\ batch.i <= Len(batch.rows)
    /\ batch.rows[batch.i] # {}
    /\ ~batch.use_llm_scoring
    /\ \E profile \in batch.rows[batch.i] :
         batch' = [batch EXCEPT !.files[batch.i] = RulesResult(profile, batch.now_year),
                                !.scored = @ + 1, !.i = @ + 1]
    /\ UNCHANGED <<canon, heur, pipeVars, scoring, chat>>

\* the model path: score_with_llm is called; what it raises, and what reading
\* its result raises, leaves main(); else the file is written
ScoreWithLlm ==
    /\ batch.pc = "loop"
    /\ batch.i <= Len(batch.rows)
    /\ batch.rows[batch.i] # {}
    /\ batch.use_llm_scoring
    /\ \E reply \in ScoreReplies :
         \E res \in {score_with_llm(reply)} :
           batch' =
             IF res.raised # "none"
             THEN [batch EXCEPT !.pc = "raised", !.error = res.raised,
                                !.asked[batch.i] = reply.kind]
             ELSE IF res.data.kind = "not_object"
             THEN [batch EXCEPT !.pc = "raised", !.error = "AttributeError",
                                !.asked[batch.i] = reply.kind]
             ELSE [batch EXCEPT !.files[batch.i] = LlmResult(res.data),
                                !.asked[batch.i] = reply.kind,
                                !.scored = @ + 1, !.i = @ + 1]
    /\ UNCHANGED <<canon, heur, pipeVars, scoring, chat>>

\* the loop ends: the counts are printed
BatchEnd ==
    /\ batch.pc = "loop"
    /\ batch.i > Len(batch.rows)
    /\ batch' = [batch EXCEPT !.pc = "done"]
    /\ UNCHANGED <<canon, heur, pipeVars, scoring, chat>>

NextBatch == BatchStart \/ SkipNoProfile \/ ScoreWithRules \/ ScoreWithLlm \/ BatchEnd

SpecBatch == InitBatch /\ [][NextBatch]_vars

-----------------------------------------------------------------------------
(* llm/openai_compat.py: chat_completions, one call. Delays are in tenths  *)
(* of a second.                                                            *)

MaxRetries == 3

\* what requests.post can do: raise (timeout, connection error), or return a
\* response with a status code and a body
Statuses == {200, 399, 400, 429, 503}
Bodies == {"content", "not_json", "no_choices"}
Responses == {[kind |-> "raises", status |-> 0, body |-> "none"]}
                 \cup {[kind |-> "http", status |-> s, body |-> b] : s \in Statuses, b \in Bodies}

\* range(a, b) as the list of its values
RangeList(a, b) == [i \in 1..(IF b > a THEN b - a ELSE 0) |-> a + i - 1]

\* a mutant: the attempts are counted from 0
AttemptRangeFromZero(max_retries) == RangeList(0, max_retries + 1)

\* for attempt in range(1, max_retries + 1)
AttemptRange(max_retries) == RangeList(1, max_retries + 1)

RateLimited == 429
ClientError == 400
RateLimitDelay == 15
ErrorDelay == 8

\* Within one attempt: what the body of the try block makes of the response.
\* "sleep_continue" is the 429 branch, "except" the handler of any exception
\* (requests raising, the LLMError of a status >= 400, r.json() or the
\* subscripts failing), "return" the content.
AttemptOutcome(resp) ==
    IF resp.kind = "raises" THEN "except"
    ELSE IF resp.status = RateLimited THEN "sleep_continue"
    ELSE IF resp.status >= ClientError THEN "except"
    ELSE IF resp.body = "content" THEN "return"
    ELSE "except"

\* a mutant: after a 429 the handler's delay is slept
SleptAlike(outcome, attempt) == ErrorDelay * attempt

\* the argument of time.sleep after an attempt that did not return
Slept(outcome, attempt) ==
    IF outcome = "sleep_continue" THEN RateLimitDelay * attempt ELSE ErrorDelay * attempt

InitChat ==
    /\ \E b \in BOOLEAN, m \in BOOLEAN, n \in 0..MaxRetries :
         chat = [ChatIdle EXCEPT !.pc = "entry", !.base_url = b, !.model = m, !.max_retries = n]
    /\ canon = CanonStill
    /\ heur = HeurIdle
    /\ PipeStill
    /\ scoring = ScoringIdle
    /\ batch = BatchIdle

\* the two checks of the arguments, before the loop
ChatCheckArgs ==
    /\ chat.pc = "entry"
    /\ chat' = IF ~chat.base_url \/ ~chat.model
               THEN [chat EXCEPT !.pc = "raised", !.out = "LLMError"]
               ELSE [chat EXCEPT !.pc = "loop", !.todo = AttemptRange(chat.max_retries)]
    /\ UNCHANGED <<canon, heur, pipeVars, scoring, batch>>

\* one turn of the loop: the POST, then a return, or a sleep and the next turn
ChatAttempt ==
    /\ chat.pc = "loop"
    /\ chat.todo # <<>>
    /\ \E resp \in Responses :
         \E outcome \in {AttemptOutcome(resp)} :
           chat' = IF outcome = "return"
                   THEN [chat EXCEPT !.pc = "returned", !.out = "content",
                                     !.todo = Tail(@), !.seen = Append(@, resp)]
                   ELSE [chat EXCEPT !.todo = Tail(@), !.seen = Append(@, resp),
                                     !.slept = Append(@, Slept(outcome, Head(chat.todo)))]
    /\ UNCHANGED <<canon, heur, pipeVars, scoring, batch>>

\* the loop is exhausted: raise LLMError("LLM call failed after retries ...")
ChatGiveUp ==
    /\ chat.pc = "loop"
    /\ chat.todo = <<>>
    /\ chat' = [chat EXCEPT !.pc = "raised", !.out = "LLMError"]
    /\ UNCHANGED <<canon, heur, pipeVars, scoring, batch>>

NextChat == ChatCheckArgs \/ ChatAttempt \/ ChatGiveUp

\* the call runs on by itself: every POST returns or raises within timeout_s,
\* every sleep ends
SpecChat == InitChat /\ [][NextChat]_vars /\ WF_vars(NextChat)

-----------------------------------------------------------------------------
(* Properties of the canonicalizer, checked under SpecCanon.               *)

\* the identity key of a display name
IdentityKey(name) == normalize_company_name(clean_display_name(name))

\* C8: for every display name n, normalize_company_name(clean_display_name(n))
\* equals normalize_company_name(clean_display_name(clean_display_name(n))):
\* cleaning a name a second time never changes its identity key.
C8_SecondCleaningKeepsKey ==
    canon.out.called => canon.out.key = canon.out.key2

\* a name the cleaning changes, whose key is not empty, has had its keys computed
C8_Witness ==
    /\ canon.out.called
    /\ clean_display_name(canon.name) # canon.name
    /\ canon.out.key # <<>>
    /\ canon.out.key = canon.out.key2

\* C9: normalize_company_name strips trailing legal-entity suffix tokens one
\* after the other and replaces '&' with 'and': the key of "Acme Pvt. Ltd." and
\* of "ACME" is "acme", the key of "A & B Corp" is "a and b", and a name with
\* any sequence of whitespace-separated suffix tokens appended has the key of
\* the name without them.
C9_SuffixTokensLeaveKey ==
    canon.out.called =>
        /\ canon.out.rawkey = canon.out.basekey
        /\ canon.name = <<"A","c","m","e"," ","P","v","t","."," ","L","t","d",".">> => canon.out.rawkey = <<"a","c","m","e">>
        /\ canon.name = <<"A","C","M","E">> => canon.out.rawkey = <<"a","c","m","e">>
        /\ canon.name = <<"A"," ","&"," ","B"," ","C","o","r","p">> => canon.out.rawkey = <<"a"," ","a","n","d"," ","b">>

\* two suffix tokens were appended to a name whose key is not empty
C9_Witness ==
    /\ canon.out.called
    /\ canon.tails >= 2
    /\ canon.out.basekey # <<>>
    /\ canon.out.rawkey = canon.out.basekey

-----------------------------------------------------------------------------
(* Properties of the classifier and the extractor, checked under SpecHeur. *)

\* the word w stands in s with no letter, digit or underscore next to it
WordIn(w, s) ==
    \E i \in 1..(Len(s) - Len(w) + 1) :
        /\ SubSeq(s, i, i + Len(w) - 1) = w
        /\ i = 1 \/ s[i - 1] \notin WordChars
        /\ i + Len(w) > Len(s) \/ s[i + Len(w)] \notin WordChars

\* C1: for every (subject, body, sender) input, extract_company_candidates never
\* returns two candidates whose display names canonicalize
\* (normalize_company_name of clean_display_name) to the same identity key.
C1_NoTwoCandidatesShareKey ==
    heur.extracted =>
        \A i, j \in 1..Len(heur.cands) :
            IdentityKey(heur.cands[i].name) = IdentityKey(heur.cands[j].name) => i = j

\* two different names of one key were found in the text, and the key is
\* among the candidates returned with another one
C1_Witness ==
    /\ heur.extracted
    /\ Len(heur.cands) >= 2
    /\ LET raw == TextCands(heur.email.subject, heur.email.body_text)
       IN  \E i, j \in 1..Len(raw) :
               /\ i < j
               /\ raw[i].name # raw[j].name
               /\ IdentityKey(raw[i].name) = IdentityKey(raw[j].name)
               /\ \E k \in 1..Len(heur.cands) :
                      IdentityKey(heur.cands[k].name) = IdentityKey(raw[i].name)

\* C3 as stated: any subject containing "OTP" is rejected by is_lead_email
\* (should_process = false), whatever the body and the sender.
C3_AnySubjectContainingOtpRejected ==
    (heur.classified /\ Contains(heur.email.subject, <<"O","T","P">>))
        => ~heur.decision.should_process

\* C3, amended: any subject in which OTP stands as a whole word, in any case and
\* with no letter, digit or underscore next to it, is rejected by is_lead_email,
\* whatever the body and the sender.
C3_SubjectWithWordOtpRejected ==
    (heur.classified /\ WordIn(<<"o","t","p">>, Lower(heur.email.subject)))
        => ~heur.decision.should_process

\* a subject with the word OTP was rejected although the email names a hiring
\* keyword and comes from a company address
C3_Witness ==
    /\ heur.classified
    /\ WordIn(<<"o","t","p">>, Lower(heur.email.subject))
    /\ \E pk \in PRIMARY_KEYWORDS :
           Contains(Lower(heur.email.subject \o <<"\n">> \o heur.email.body_text), pk)
    /\ heur.email.from_email = <<"h","r","@","r","a","z","o","r","p","a","y",".","c","o","m">>
    /\ ~heur.decision.should_process

\* the body has one line that mentions "company", and it reads "Company: Razorpay"
OnlyCompanyLineIsRazorpay(body_text) ==
    LET ls   == SplitOn(body_text, "\n")
        with == {k \in 1..Len(ls) : Contains(Lower(ls[k]), <<"c","o","m","p","a","n","y">>)}
    IN  Cardinality(with) = 1 /\ \A k \in with : ls[k] = <<"C","o","m","p","a","n","y",":"," ","R","a","z","o","r","p","a","y">>

\* subject, sender and body match no noise pattern
NoNoisePattern(e) ==
    /\ \A k \in 1..Len(EXCLUDE_SUBJECT_PATTERNS) :
           ~WordIn(EXCLUDE_SUBJECT_PATTERNS[k], Lower(e.subject))
    /\ e.from_email = None
       \/ \A d \in AGGREGATOR_DOMAINS : ~EndsWith(Lower(e.from_email), d)
    /\ \A sig \in NEWSLETTER_SIGNALS : ~Contains(Lower(e.body_text), sig)

\* a primary hiring keyword stands in the subject or the body
NamesHiring(e) ==
    \E pk \in PRIMARY_KEYWORDS : Contains(Lower(e.subject), pk) \/ Contains(Lower(e.body_text), pk)

\* the first candidate is "Razorpay" with weight 9, before every domain-derived one
RazorpayFirst(cands) ==
    /\ Len(cands) >= 1
    /\ cands[1].name = <<"R","a","z","o","r","p","a","y">>
    /\ cands[1].score = 9
    /\ \A k \in 1..Len(cands) :
           cands[k].source.kind = "domain" => k > 1 /\ cands[k].score = 4

\* C4 as stated: an email whose body contains "Company: Razorpay" and whose
\* subject, sender and body match no noise pattern is accepted by is_lead_email,
\* and extract_company_candidates returns as its first candidate "Razorpay" with
\* weight 9, before every domain-derived (weight 4) candidate of the email.
C4_CompanyLineAcceptedAndFirst ==
    (heur.extracted /\ Contains(heur.email.body_text, <<"C","o","m","p","a","n","y",":"," ","R","a","z","o","r","p","a","y">>)
                    /\ NoNoisePattern(heur.email))
        => heur.decision.should_process /\ RazorpayFirst(heur.cands)

\* C4, amended: an email whose body has exactly one line mentioning "company",
\* reading "Company: Razorpay", gets "Razorpay" with weight 9 as its first
\* candidate, before every domain-derived (weight 4) candidate; and it is
\* accepted when its subject, sender and body match no noise pattern and its
\* subject or body names a primary hiring keyword.
C4_OnlyCompanyLineFirstAndAcceptedIfHiring ==
    /\ (heur.extracted /\ OnlyCompanyLineIsRazorpay(heur.email.body_text))
           => RazorpayFirst(heur.cands)
    /\ (heur.classified /\ OnlyCompanyLineIsRazorpay(heur.email.body_text)
                        /\ NoNoisePattern(heur.email) /\ NamesHiring(heur.email))
           => heur.decision.should_process

\* such an email was accepted and has a domain-derived candidate after "Razorpay"
C4_Witness ==
    /\ heur.extracted
    /\ OnlyCompanyLineIsRazorpay(heur.email.body_text)
    /\ NoNoisePattern(heur.email)
    /\ NamesHiring(heur.email)
    /\ heur.decision.should_process
    /\ RazorpayFirst(heur.cands)
    /\ \E k \in 1..Len(heur.cands) : heur.cands[k].source.kind = "domain"

\* x occurs in s as a run of characters
Occurs(x, s) == \E i \in 1..(Len(s) - Len(x) + 1) : \A k \in 1..Len(x) : s[i + k - 1] = x[k]

\* the part of a sender address after its first '@', lowercased; <<>> without one
SenderDomain(from) ==
    IF from = None \/ ~(\E i \in 1..Len(from) : from[i] = "@") THEN <<>>
    ELSE LET i == CHOOSE k \in 1..Len(from) : from[k] = "@" /\ \A j \in 1..(k - 1) : from[j] # "@"
         IN  Strip(Lower([k \in 1..(Len(from) - i) |-> from[i + k]]))

NoiseSubject(e) == \E k \in DOMAIN EXCLUDE_SUBJECT_PATTERNS :
                       WordIn(EXCLUDE_SUBJECT_PATTERNS[k], Lower(e.subject))
AggregatorSender(e) == \E d \in AGGREGATOR_DOMAINS :
                           LET dom == SenderDomain(e.from_email)
                           IN  Len(dom) >= Len(d) /\ Occurs(d, SubSeq(dom, Len(dom) - Len(d) + 1, Len(dom)))
SubjectAndBody(e) == Lower(e.subject) \o <<"\n">> \o Lower(e.body_text)
HasPrimary(e) == \E pk \in PRIMARY_KEYWORDS : Occurs(pk, SubjectAndBody(e))
HasSecondary(e) == \E sk \in SECONDARY_KEYWORDS : Occurs(sk, SubjectAndBody(e))
HasEvidence(e) == \E ev \in JOB_EVIDENCE : Occurs(ev, SubjectAndBody(e))
NewsletterBody(e) == \E sig \in NEWSLETTER_SIGNALS : Occurs(sig, Lower(e.body_text))

\* the reason of the first of the six rules that matches
FirstRule(e) ==
    IF NoiseSubject(e) THEN "excluded_subject"
    ELSE IF AggregatorSender(e) THEN "aggregator_domain"
    ELSE IF NewsletterBody(e) /\ ~HasPrimary(e) THEN "newsletter_signal"
    ELSE IF HasPrimary(e) THEN "primary"
    ELSE IF HasSecondary(e) /\ HasEvidence(e) THEN "secondary+evidence"
    ELSE "no_lead_signals"

\* C11: is_lead_email evaluates its six rules in fixed order and the first
\* matching rule decides outcome and reason: an email is accepted exactly when
\* its subject matches no noise pattern, its sender domain ends with no
\* aggregator domain, and either a primary keyword occurs in subject plus body
\* or the body has no newsletter signal while a secondary keyword and a
\* job-evidence term both occur; a noise subject or an aggregator sender is
\* rejected even with primary keywords present.
C11_FirstMatchingRuleDecides ==
    heur.classified =>
        /\ heur.decision.reason = FirstRule(heur.email)
        /\ heur.decision.should_process <=>
               /\ ~NoiseSubject(heur.email)
               /\ ~AggregatorSender(heur.email)
               /\ \/ HasPrimary(heur.email)
                  \/ ~NewsletterBody(heur.email) /\ HasSecondary(heur.email) /\ HasEvidence(heur.email)
        /\ NoiseSubject(heur.email) \/ AggregatorSender(heur.email) => ~heur.decision.should_process

\* an email with a primary keyword and a noise subject has been rejected for its subject
C11_Witness ==
    /\ heur.classified
    /\ HasPrimary(heur.email)
    /\ NoiseSubject(heur.email)
    /\ heur.decision = Decision(FALSE, "excluded_subject", <<"o","t","p">>)

\* an email without primary keyword was accepted on a secondary keyword and job evidence
C11_WitnessSecondary ==
    /\ heur.classified
    /\ ~HasPrimary(heur.email)
    /\ heur.decision.reason = "secondary+evidence"

\* C21: pick_best_company returns the cleaned display name and source tag of a
\* surviving candidate of maximal weight w, with confidence
\* min(0.95, max(0.4, w/10)), which lies in [0.4, 0.95]; when no candidate
\* survives it returns (null, null, "none").
C21_BestIsTopCandidateClamped ==
    heur.extracted =>
        IF heur.cands = <<>>
        THEN heur.best.name = None /\ heur.best.conf = {} /\ heur.best.source.kind = "none"
        ELSE /\ \E k \in 1..Len(heur.cands) :
                   /\ \A j \in 1..Len(heur.cands) : heur.cands[j].score <= heur.cands[k].score
                   /\ heur.best.name = heur.cands[k].name
                   /\ heur.best.source = heur.cands[k].source
                   /\ \E w \in {heur.cands[k].score} :
                          heur.best.conf = {IF 10 * w > 95 THEN 95 ELSE IF 10 * w < 40 THEN 40 ELSE 10 * w}
             /\ heur.best.name = clean_display_name(heur.best.name)
             /\ \A c \in heur.best.conf : 40 <= c /\ c <= 95

\* candidates of weights 9 and 4 survived; the one of weight 9 is returned with 0.9
C21_Witness ==
    /\ heur.extracted
    /\ Len(heur.cands) >= 2
    /\ heur.cands[1].score = 9
    /\ heur.cands[Len(heur.cands)].score = 4
    /\ heur.best = Result(heur.cands[1].name, {90}, heur.cands[1].source)

\* the identity keys of the raw candidates, by position
RawKeys == [i \in 1..Len(heur.raw) |-> IdentityKey(heur.raw[i].name)]

\* the raw candidates that step 4 does not discard, by position
Survivors(keys) == {i \in DOMAIN keys : keys[i] # <<>> /\ keys[i] \notin STOP_ORGS}

\* the survivors that share the identity key of the raw candidate at i
SameKey(keys, i) == {j \in Survivors(keys) : keys[j] = keys[i]}

\* the first of them, in the order of encounter, that has their highest weight
FirstOfTop(keys, i) ==
    CHOOSE j \in SameKey(keys, i) :
        /\ \A k \in SameKey(keys, i) : heur.raw[k].score <= heur.raw[j].score
        /\ \A k \in SameKey(keys, i) : heur.raw[k].score = heur.raw[j].score => j <= k

SourceRank(kind) == IF kind = "subject" THEN 1 ELSE IF kind = "body_pattern" THEN 2 ELSE 3

\* C22: among the raw candidates of one email that share an identity key,
\* extract_company_candidates keeps exactly the one with the highest weight, and
\* of several with the highest weight the one encountered first, the order of
\* encounter being subject hits, then body patterns, then domains.
C22_KeepsFirstOfHighestWeight ==
    heur.extracted =>
        \E keys \in {RawKeys} :
            /\ \A i, j \in 1..Len(heur.raw) :
                   i < j => SourceRank(heur.raw[i].source.kind) <= SourceRank(heur.raw[j].source.kind)
            /\ \E kept \in {{FirstOfTop(keys, i) : i \in Survivors(keys)}} :
                   /\ Len(heur.cands) = Cardinality(kept)
                   /\ \A i \in kept :
                          \E k \in 1..Len(heur.cands) :
                              heur.cands[k] = [heur.raw[i] EXCEPT !.name = clean_display_name(@)]
                   /\ \A i, j \in kept : keys[i] = keys[j] => i = j

\* a subject hit and a body pattern of weight 6 share a key under different
\* display names; the subject hit is the one kept
C22_Witness ==
    /\ heur.extracted
    /\ \E keys \in {RawKeys} :
         \E i, j \in Survivors(keys) :
           /\ i < j
           /\ keys[i] = keys[j]
           /\ heur.raw[i].score = heur.raw[j].score
           /\ heur.raw[i].source.kind = "subject" /\ heur.raw[j].source.kind = "body_pattern"
           /\ clean_display_name(heur.raw[i].name) # clean_display_name(heur.raw[j].name)
           /\ FirstOfTop(keys, i) = i
           /\ \E k \in 1..Len(heur.cands) : heur.cands[k].source = heur.raw[i].source

\* C25: no candidate returned by extract_company_candidates, and so no name
\* returned by pick_best_company, has an identity key that is empty or that is
\* on the stop-list of non-company phrases.
C25_NoStopListCandidate ==
    heur.extracted =>
        /\ \A k \in 1..Len(heur.cands) :
               \E key \in {IdentityKey(heur.cands[k].name)} : key # <<>> /\ key \notin STOP_ORGS
        /\ heur.best.name # None =>
               \E key \in {IdentityKey(heur.best.name)} : key # <<>> /\ key \notin STOP_ORGS

\* a raw candidate whose key is on the stop-list was met and dropped, while
\* another candidate of the same email was kept
C25_Witness ==
    /\ heur.extracted
    /\ heur.cands # <<>>
    /\ \E keys \in {RawKeys} :
           /\ \E i \in DOMAIN keys : keys[i] \in STOP_ORGS
           /\ Len(heur.cands) < Len(heur.raw)

\* C27: heuristic extraction is deterministic: every evaluation of
\* extract_company_candidates and of pick_best_company on the (subject, body,
\* sender) of an email returns the result of any other, equal-weight
\* candidates in the same order, whichever way the collected domain set is
\* iterated.
C27_ExtractionDeterministic ==
    heur.extracted =>
        \A cs \in extract_company_candidates(heur.email.subject, heur.email.body_text,
                                             heur.email.from_email) :
            cs = heur.cands /\ PickBest(cs) = heur.best

-----------------------------------------------------------------------------
(* Properties of the run loop, checked under Spec.                          *)

\* C2: in the per-email pipeline, when the heuristic extractor returns a company
\* with confidence >= 0.60 and a non-empty identity key, the model-based
\* extractor is never invoked for that email, whether escalation is enabled or not.
C2_NoEscalationWhenConfident ==
    \A k \in 1..Len(hist) :
        LET h == hist[k].heur
        IN  (/\ "extract" \in hist[k].steps
             /\ h.name # None
             /\ h.conf # {} /\ \A c \in h.conf : c >= 60
             /\ IdentityKey(h.name) # <<>>)
                => /\ hist[k].steps \cap {"try_llm", "extract_with_llm"} = {}
                   /\ hist[k].llm_calls = 0

\* with escalation enabled and configured, an email whose heuristic confidence
\* is exactly 0.60 was stored under the heuristic's company
C2_Witness ==
    /\ env.llm_enabled /\ env.configured
    /\ \E k \in 1..Len(hist) :
           /\ hist[k].heur.name # None
           /\ hist[k].heur.conf = {60}
           /\ IdentityKey(hist[k].heur.name) # <<>>
           /\ "link" \in hist[k].steps
           /\ hist[k].final = hist[k].heur
           /\ db.emails[k].processed = 1

\* C10: when is_lead_email rejects an email, the pipeline short-circuits for it:
\* no candidate extraction runs, the model-based extractor is not invoked, and
\* no company is created, updated or linked to that email; the email is marked
\* processed and the loop goes on to the next message.
C10_RejectedShortCircuits ==
    \A k \in 1..Len(hist) :
        hist[k].verdict = "rejected" =>
            /\ hist[k].steps = {}
            /\ hist[k].llm_calls = 0
            /\ hist[k].final = NoResult
            /\ \A l \in db.links : l.email_id # k
            /\ run.email_id # k
            /\ db.emails[k].processed = 1

\* a rejected email lies behind while another email of the run got its company linked
C10_Witness ==
    \E k, j \in 1..Len(hist) :
        /\ hist[k].verdict = "rejected"
        /\ db.emails[k].processed = 1
        /\ hist[j].verdict = "accepted"
        /\ \E l \in db.links : l.email_id = j
        /\ \A l \in db.links : l.email_id # k

\* the emails the loop body has carried to its end
Finished(k) == hist[k].verdict = "accepted" /\ db.emails[k].processed = 1

\* C12: the final (name, confidence, source) of an email comes wholly from one
\* source: either all three are the model's result with source "llm", which
\* happens only when the model claims a lead and gives a name whose identity key
\* is not empty, or all three are the heuristic result unchanged; never a mix.
C12_FinalFromOneSource ==
    \A k \in 1..Len(hist) :
        Finished(k) =>
            LET f == hist[k].final
                h == hist[k].heur
                d == hist[k].reply
            IN  \/ /\ f.name = h.name /\ f.conf = h.conf /\ f.source = h.source
                   /\ f.source.kind # "llm"
                \/ /\ f.name = hist[k].llm.name /\ f.conf = hist[k].llm.conf
                   /\ f.source.kind = "llm"
                   /\ d.is_lead /\ d.company_name # None
                   /\ IdentityKey(d.company_name) # <<>>
                   /\ f.name = clean_display_name(d.company_name)

\* the heuristic named a company with low confidence and the model's triple took its place
C12_Witness ==
    \E k \in 1..Len(hist) :
        /\ Finished(k)
        /\ hist[k].heur.name # None
        /\ hist[k].final.source.kind = "llm"
        /\ hist[k].final.name # hist[k].heur.name
        /\ hist[k].final.conf # hist[k].heur.conf
        /\ \E l \in db.links : l.email_id = k /\ l.source = LlmSource

\* the ways the escalation step fails once the model service is asked
FailedEscalation == {"call_error", "no_json", "malformed"}

\* the loop body holds the heuristic triple of email k, or has stored it
CarriesHeuristic(k) ==
    \/ /\ run.email_id = k /\ run.pc = "store"
       /\ Result(run.company_name, run.conf, run.src) = hist[k].heur
    \/ /\ Finished(k)
       /\ hist[k].final = hist[k].heur

NothingUsable(k) == ~hist[k].reply.is_lead \/ hist[k].reply.company_name = None

C14_ConfigErrorRaised ==
    \A k \in 1..Len(hist) :
        hist[k].escalation = "config_error" =>
            /\ ~(run.email_id = k /\ run.pc = "store")
            /\ db.emails[k].processed = 0

\* C15: within one run the model service is called at most once for each email,
\* whatever the heuristic found and whatever the model returns; as a processed
\* email is skipped by later runs, at most once over all runs.
C15_AtMostOneCallPerEmail ==
    \A k \in 1..Len(hist) : hist[k].llm_calls <= 1

\* two emails of one run have each had their one call, one of which raised
C15_Witness ==
    /\ run.runs = 1
    /\ \E k, j \in 1..Len(hist) :
           /\ k # j
           /\ hist[k].llm_calls = 1 /\ hist[k].escalation = "call_error"
           /\ hist[j].llm_calls = 1 /\ hist[j].escalation = "answer"
           /\ Finished(k) /\ Finished(j)

\* the heuristic result of email k has no company, or a confidence below 0.60,
\* or a name whose identity key is empty
HeuristicFallsShort(k) ==
    \/ hist[k].heur.name = None
    \/ hist[k].heur.conf = {} \/ \E c \in hist[k].heur.conf : c < 60
    \/ IdentityKey(hist[k].heur.name) = <<>>

\* C24 as stated: for an accepted email, with escalation enabled and the service
\* configured, extract_with_llm is invoked if and only if the heuristic result
\* falls short; with escalation disabled it is never invoked and the final
\* result is the heuristic result.
C24_InvokedIffHeuristicFallsShort ==
    \A k \in 1..Len(hist) :
        Finished(k) =>
            /\ (env.llm_enabled /\ env.configured) =>
                   ("extract_with_llm" \in hist[k].steps <=> HeuristicFallsShort(k))
            /\ ~env.llm_enabled =>
                   /\ "extract_with_llm" \notin hist[k].steps
                   /\ hist[k].final = hist[k].heur

\* C24, amended: the same, for the emails whose escalation found the extraction
\* agent importable.
C24_InvokedIffFallsShortAndImportable ==
    \A k \in 1..Len(hist) :
        Finished(k) =>
            /\ (env.llm_enabled /\ env.configured /\ hist[k].escalation # "import_error") =>
                   ("extract_with_llm" \in hist[k].steps <=> HeuristicFallsShort(k))
            /\ ~env.llm_enabled =>
                   /\ "extract_with_llm" \notin hist[k].steps
                   /\ hist[k].final = hist[k].heur

\* with escalation enabled and configured, one email of confidence 0.40 went to
\* the model and another of confidence 0.60 or more did not
C24_Witness ==
    /\ env.llm_enabled /\ env.configured
    /\ \E k, j \in 1..Len(hist) :
           /\ Finished(k) /\ Finished(j)
           /\ hist[k].heur.conf = {40} /\ "extract_with_llm" \in hist[k].steps
           /\ hist[k].escalation = "answer"
           /\ \E c \in hist[j].heur.conf : c >= 60
           /\ "extract_with_llm" \notin hist[j].steps

\* with escalation disabled, an email without a heuristic company was finished
\* without the model
C24_WitnessDisabled ==
    /\ ~env.llm_enabled
    /\ \E k \in 1..Len(hist) :
           /\ Finished(k) /\ hist[k].heur.name = None
           /\ "try_llm" \in hist[k].steps /\ "extract_with_llm" \notin hist[k].steps

\* the company table holds one row per identity key, and every linked email is
\* linked to the row of the key of its final company name
OneCompanyPerKey(d, h) ==
    /\ \A i, j \in 1..Len(d.companies) :
           d.companies[i].normalized_name = d.companies[j].normalized_name => i = j
    /\ \A l \in d.links :
           /\ l.company_id \in 1..Len(d.companies)
           /\ d.companies[l.company_id].normalized_name =
                  normalize_company_name(h[l.email_id].final.name)

\* C28: after any sequence of processed emails the company store holds at most
\* one company per identity key; two emails whose final names canonicalize to
\* the same key are linked to the same company id, whatever their display
\* strings; and no step removes a row, moves it or changes its key, a row being
\* added only under a key the table did not hold.
C28_OneCompanyPerIdentityKey ==
    [][/\ OneCompanyPerKey(db', hist')
       /\ Len(db'.companies) >= Len(db.companies)
       /\ \A i \in 1..Len(db.companies) :
              db'.companies[i].normalized_name = db.companies[i].normalized_name
       /\ \A i \in (Len(db.companies) + 1)..Len(db'.companies) :
              /\ i = Len(db.companies) + 1
              /\ \A j \in 1..Len(db.companies) :
                     db.companies[j].normalized_name # db'.companies[i].normalized_name]_vars

\* two emails whose final names differ as strings are linked to one company
C28_Witness ==
    \E k, j \in 1..Len(hist) :
        /\ Finished(k) /\ Finished(j)
        /\ hist[k].final.name # hist[j].final.name
        /\ hist[k].final.name # None /\ hist[j].final.name # None
        /\ \E c \in 1..Len(db.companies) :
               /\ \E l \in db.links : l.email_id = k /\ l.company_id = c
               /\ \E l \in db.links : l.email_id = j /\ l.company_id = c
        /\ Len(db.companies) = 1

\* the next message of the queue is one whose row is already marked processed
FetchesProcessed ==
    /\ run.pc = "loop" /\ run.queue # <<>>
    /\ EmailRowOf(db.emails, Head(run.queue)) # 0
    /\ db.emails[EmailRowOf(db.emails, Head(run.queue))].processed = 1

\* C29: in the run loop every email that was handled ends with processed = 1,
\* whether rejected, accepted without a company or linked to one: at any moment
\* every stored email is processed or is the one being handled; the flag never
\* returns from 1 to 0; and an email fetched again with its flag at 1 is skipped
\* entirely: nothing is classified, extracted, asked of the model, upserted or
\* linked for it, then or later.
C29_ProcessedOnceAndSkipped ==
    [][/\ \A k \in 1..Len(db'.emails) : db'.emails[k].processed = 1 \/ run'.email_id = k
       /\ \A k \in 1..Len(db.emails) :
              db.emails[k].processed = 1 =>
                  /\ db'.emails[k].processed = 1
                  /\ hist'[k] = hist[k]
                  /\ {l \in db'.links : l.email_id = k} = {l \in db.links : l.email_id = k}
                  /\ run'.email_id # k
       /\ FetchesProcessed =>
              /\ db' = db /\ hist' = hist
              /\ run' = NextMessage(run)]_vars

\* a second run has gone through a mailbox of a rejected and a linked email,
\* both processed by the first run
C29_Witness ==
    /\ run.runs = 2 /\ run.pc = "loop" /\ run.queue = <<>>
    /\ Len(db.emails) = MaxEmails
    /\ \A k \in 1..Len(db.emails) : db.emails[k].processed = 1
    /\ \E k \in 1..Len(hist) : hist[k].verdict = "rejected"
    /\ \E k \in 1..Len(hist) : "link" \in hist[k].steps

\* C30 as stated: after any sequence of processed emails no company is stored
\* or linked under an identity key that is empty or on the extractor's
\* stop-list, whichever source supplied the final company name.
C30_NoStopListCompanyStored ==
    /\ \A i \in 1..Len(db.companies) :
           /\ db.companies[i].normalized_name # <<>>
           /\ db.companies[i].normalized_name \notin STOP_ORGS
    /\ \A l \in db.links :
           /\ db.companies[l.company_id].normalized_name # <<>>
           /\ db.companies[l.company_id].normalized_name \notin STOP_ORGS

\* C30, amended: no company is stored or linked under an empty identity key,
\* whichever source supplied the final company name, and none is stored or
\* linked under a stop-list key unless the model-based extractor supplied the
\* name.
C30_NoEmptyKeyNoHeuristicStopList ==
    /\ \A i \in 1..Len(db.companies) :
           /\ db.companies[i].normalized_name # <<>>
           /\ db.companies[i].normalized_name \in STOP_ORGS =>
                  /\ \E l \in db.links : l.company_id = i
                  /\ \A l \in db.links : l.company_id = i => l.source = LlmSource
    /\ \A l \in db.links :
           /\ db.companies[l.company_id].normalized_name # <<>>
           /\ l.source # LlmSource =>
                  db.companies[l.company_id].normalized_name \notin STOP_ORGS

\* the heuristic dropped its stop-list candidate for one email, which was
\* finished without a company, and linked another email to its company; the
\* model's names of an empty key were not stored either
C30_Witness ==
    \E k, j \in 1..Len(hist) :
        /\ Finished(k) /\ Finished(j)
        /\ mailbox[db.emails[k].gmail_message_id].subject = <<"I","n","t","e","r","n","s","h","i","p"," ","a","t"," ","H","R"," ","T","e","a","m">>
        /\ hist[k].heur.name = None
        /\ hist[k].reply.company_name \in {<<"I","n","c",".">>, <<" ">>}
        /\ \A l \in db.links : l.email_id # k
        /\ \E l \in db.links : l.email_id = j /\ l.source # LlmSource

\* the model's name "HR Team" was stored and linked
C30_WitnessModelStopList ==
    \E l \in db.links :
        /\ l.source = LlmSource
        /\ db.companies[l.company_id].normalized_name \in STOP_ORGS

-----------------------------------------------------------------------------
(* Properties of the scoring, checked under SpecScore.                      *)

\* C5: compute_weighted_score on a profile whose founded_year is the current year
\* (age 0) returns disqualified = true and total_score_0_100 = 0, whatever the
\* other fields of the profile, and without computing any other sub-score.
C5_AgeZeroDisqualifies ==
    (scoring.scored /\ scoring.profile.founded_year = {scoring.now_year}) =>
        /\ scoring.result.disqualified
        /\ scoring.result.total_score_0_100 = 0
        /\ scoring.computed = {"age"}
        /\ "subscores_1_to_5" \notin DOMAIN scoring.result

\* a profile founded this year, strong in every other field, was scored
C5_Witness ==
    /\ scoring.scored
    /\ scoring.profile.founded_year = {scoring.now_year}
    /\ scoring.profile.employees = {50000}
    /\ scoring.profile.revenue = <<"U","S","$","1","0"," ","b","i","l","l","i","o","n"," ","(","2","0","2","3",")">>
    /\ scoring.profile.description = <<"A","I"," ","d","a","t","a"," ","a","n","a","l","y","t","i","c","s"," ","p","l","a","t","f","o","r","m"," ","f","o","r"," ","b","a","n","k","s">>
    /\ scoring.profile.hq_location = <<"B","e","n","g","a","l","u","r","u">>
    /\ scoring.result.disqualified
    /\ scoring.result.total_score_0_100 = 0

\* C6: compute_weighted_score on the fully empty profile {} returns total score 0,
\* label "Disqualified", and all seven sub-scores equal to 0.
C6_EmptyProfileScoresZero ==
    (scoring.scored /\ scoring.profile = EmptyProfile) =>
        /\ scoring.result.total_score_0_100 = 0
        /\ scoring.result.label = "Disqualified"
        /\ "subscores_1_to_5" \in DOMAIN scoring.result
        /\ DOMAIN scoring.result.subscores_1_to_5 = Dimensions
        /\ \A d \in Dimensions : scoring.result.subscores_1_to_5[d] = 0

\* the empty profile was scored, through all seven sub-scores
C6_Witness ==
    /\ scoring.scored
    /\ scoring.profile = EmptyProfile
    /\ scoring.computed = Dimensions
    /\ scoring.result.label = "Disqualified"

\* the profile of C7
C7Profile ==
    Profile({1990}, {50000}, <<"U","S","$","1","0"," ","b","i","l","l","i","o","n"," ","(","2","0","2","3",")">>, <<"c","l","o","u","d"," ","i","n","f","r","a","s","t","r","u","c","t","u","r","e"," ","s","o","f","t","w","a","r","e">>,
            <<"B","e","n","g","a","l","u","r","u">>, <<>>, {80})

\* 100 times the weighted average of the fixed weight table
TableSum(sub) ==
    10 * sub.age + 10 * sub.employees + 10 * sub.financial + 5 * sub.founders
        + 25 * sub.domain + 20 * sub.project + 20 * sub.geo

\* C7 as stated: the profile of C7, with the age taken from the current year,
\* yields the sub-scores age = 4, employees = 4, financial = 4, domain >= 4,
\* geo = 5 and a total of at least 60, labelled Strong or Moderate, equal to the
\* value the fixed weight table gives.
C7_ProfileScoresAsStated ==
    (scoring.scored /\ scoring.profile = C7Profile) =>
        /\ "subscores_1_to_5" \in DOMAIN scoring.result
        /\ LET sub == scoring.result.subscores_1_to_5
           IN  /\ sub.age = 4 /\ sub.employees = 4 /\ sub.financial = 4
               /\ sub.domain >= 4 /\ sub.geo = 5
               /\ scoring.result.total_score_0_100 >= 60
               /\ scoring.result.label \in {"Strong", "Moderate"}
               /\ 5 * scoring.result.total_score_0_100 = TableSum(sub)

\* C7, amended: the profile of C7 yields age = 5 once the current year is 2020
\* or later (4 while the company is 15 to 29 years old), employees = 4,
\* financial = 4, domain = 3 (two vocabulary hits, "cloud" and "software"),
\* project = 4, founders = 0, geo = 5, and the total the fixed weight table
\* gives, 77 (75 with age 4), labelled Moderate.
C7_ProfileScoresModerate ==
    (scoring.scored /\ scoring.profile = C7Profile) =>
        /\ "subscores_1_to_5" \in DOMAIN scoring.result
        /\ LET sub == scoring.result.subscores_1_to_5
           IN  /\ sub.age = (IF scoring.now_year >= 2020 THEN 5 ELSE 4)
               /\ sub.employees = 4 /\ sub.financial = 4 /\ sub.founders = 0
               /\ sub.domain = 3 /\ sub.project = 4 /\ sub.geo = 5
               /\ scoring.result.total_score_0_100 = (IF scoring.now_year >= 2020 THEN 77 ELSE 75)
               /\ 5 * scoring.result.total_score_0_100 = TableSum(sub)
               /\ scoring.result.label = "Moderate"
               /\ ~scoring.result.disqualified

\* the profile of C7 was scored in a year after 2019
C7_Witness ==
    /\ scoring.scored
    /\ scoring.profile = C7Profile
    /\ scoring.now_year >= 2020
    /\ scoring.result.total_score_0_100 = 77

\* the call went past the age check
AgeAccepted == scoring.scored /\ "subscores_1_to_5" \in DOMAIN scoring.result

\* C16: for every profile that is not age-disqualified, total_score_0_100 =
\* 2*age + 2*employees + 2*financial + 1*founders + 5*domain + 4*project + 4*geo
\* over the sub-scores; a missing dimension contributes 0 and stays in the
\* denominator, so the total falls instead of being renormalized.
C16_TotalIsFixedWeightSum ==
    AgeAccepted =>
        LET sub == scoring.result.subscores_1_to_5
        IN  /\ scoring.result.total_score_0_100 =
                   2 * sub.age + 2 * sub.employees + 2 * sub.financial + 1 * sub.founders
                       + 5 * sub.domain + 4 * sub.project + 4 * sub.geo
            /\ scoring.profile.employees = {} => sub.employees = 0
            /\ scoring.profile.revenue = None => sub.financial = 0
            /\ scoring.profile.hq_location = None => sub.geo = 0
            /\ scoring.profile.founded_year = {} => sub.age = 0

\* a profile without employees and revenue whose other dimensions score: its
\* total stays below what the present dimensions alone would average to
C16_Witness ==
    /\ AgeAccepted
    /\ scoring.profile.employees = {}
    /\ scoring.profile.revenue = None
    /\ scoring.result.subscores_1_to_5.age = 5
    /\ scoring.result.subscores_1_to_5.geo = 5
    /\ scoring.result.subscores_1_to_5.domain > 0
    /\ scoring.result.total_score_0_100 > 0

\* C17: the label is determined by the total alone: at least 80 Strong, from 60
\* to below 80 Moderate, from 40 to below 60 Weak, below 40 Disqualified.
C17_LabelFromTotal ==
    scoring.scored =>
        LET total == scoring.result.total_score_0_100
        IN  /\ total >= 80 => scoring.result.label = "Strong"
            /\ total >= 60 /\ total < 80 => scoring.result.label = "Moderate"
            /\ total >= 40 /\ total < 60 => scoring.result.label = "Weak"
            /\ total < 40 => scoring.result.label = "Disqualified"

\* a profile whose total is exactly 60 is labelled Moderate
C17_Witness ==
    /\ scoring.scored
    /\ scoring.result.total_score_0_100 = 60
    /\ scoring.result.label = "Moderate"

\* the result of the same profile under another confidence
WithConfidence(c) ==
    compute_weighted_score([scoring.profile EXCEPT !.confidence = c], scoring.now_year)

\* C18: two profiles that differ only in confidence get the same total, label,
\* disqualified flag and sub-scores; a confidence below 0.6, or a missing one,
\* sets the low-confidence flag and nothing else.
C18_ConfidenceOnlySetsFlag ==
    scoring.scored =>
        \A c \in ConfidenceInputs :
            LET other == WithConfidence(c)
            IN  /\ other.total_score_0_100 = scoring.result.total_score_0_100
                /\ other.label = scoring.result.label
                /\ other.disqualified = scoring.result.disqualified
                /\ AgeAccepted =>
                       /\ other.subscores_1_to_5 = scoring.result.subscores_1_to_5
                       /\ scoring.result.low_confidence <=>
                              \/ scoring.profile.confidence = {}
                              \/ \E x \in scoring.profile.confidence : x < 60

\* a profile of confidence 0.5 is flagged and labelled Moderate, as it is with 0.8
C18_Witness ==
    /\ AgeAccepted
    /\ scoring.profile.confidence = {50}
    /\ scoring.result.low_confidence
    /\ scoring.result.label = "Moderate"
    /\ WithConfidence({80}).label = "Moderate"
    /\ ~WithConfidence({80}).low_confidence

\* C23: every result of a scoring call carries sub-scores for exactly the
\* seven dimensions, each an integer in 0..5, together with the seven weights,
\* for every profile, the disqualified ones included.
C23_SevenSubscoresAlways ==
    scoring.scored =>
        /\ "subscores_1_to_5" \in DOMAIN scoring.result
        /\ DOMAIN scoring.result.subscores_1_to_5 = Dimensions
        /\ \A d \in Dimensions : scoring.result.subscores_1_to_5[d] \in 0..5
        /\ "weights" \in DOMAIN scoring.result
        /\ DOMAIN scoring.result.weights = Dimensions

-----------------------------------------------------------------------------
(* Properties of the scoring batch, checked under SpecBatch.                *)

\* C19: on the model-based scoring path a reply that is not valid JSON makes
\* score_with_llm raise to its caller: main() is left with LLMError at that
\* company, no result is produced or written for it, and no rules-based score
\* takes its place.
C19_InvalidJsonRaises ==
    \A k \in 1..Len(batch.asked) :
        batch.asked[k] = "not_json" =>
            /\ batch.pc = "raised"
            /\ batch.error = "LLMError"
            /\ batch.i = k
            /\ batch.files[k] = NoFile
            /\ batch.scored = Cardinality({j \in 1..(k - 1) : batch.files[j] # NoFile})

\* the first company was scored by the model and written; the reply for the
\* second was no JSON and nothing was written for it
C19_Witness ==
    /\ Len(batch.rows) = 2
    /\ batch.asked[1] = "object" /\ batch.files[1].method = "llm"
    /\ batch.asked[2] = "not_json"
    /\ batch.files[2] = NoFile
    /\ batch.error = "LLMError"

\* main() has returned or been left by an exception
BatchOver == batch.pc \in {"done", "raised"}

\* C20: no error raised while processing one company aborts the processing of
\* the remaining companies of the batch: when main() is over, the loop has come
\* to every company; only a company at which an error was raised is without
\* its result.
C20_FailureIsLocalToItem ==
    BatchOver =>
        \A k \in 1..Len(batch.rows) :
            \/ k < batch.i
            \/ k = batch.i /\ batch.asked[k] # "none"

-----------------------------------------------------------------------------
(* Properties of chat_completions, checked under SpecChat.                  *)

\* a response that chat_completions returns from: a status below 400 and a body
\* with choices[0].message.content
WellFormed(resp) == resp.kind = "http" /\ resp.status < 400 /\ resp.body = "content"

ChatOver == chat.pc \in {"returned", "raised"}

\* what holds at every moment of a call with max_retries = N
C26_Bounded ==
    /\ Len(chat.seen) <= chat.max_retries
    /\ (~chat.base_url \/ ~chat.model) => chat.seen = <<>> /\ chat.pc \in {"entry", "raised"}
    /\ chat.pc = "returned" =>
           /\ chat.seen # <<>> /\ WellFormed(chat.seen[Len(chat.seen)])
           /\ chat.out = "content"
    /\ \A i \in 1..Len(chat.seen) : WellFormed(chat.seen[i]) => i = Len(chat.seen) /\ chat.pc = "returned"
    /\ chat.pc = "raised" =>
           /\ chat.out = "LLMError"
           /\ (chat.base_url /\ chat.model) => Len(chat.seen) = chat.max_retries
    /\ Len(chat.slept) = Cardinality({i \in 1..Len(chat.seen) : ~WellFormed(chat.seen[i])})
    /\ \A i \in 1..Len(chat.slept) :
           chat.slept[i] = (IF chat.seen[i].kind = "http" /\ chat.seen[i].status = 429
                            THEN 15 ELSE 8) * i

\* C26: chat_completions with max_retries = N always terminates, after at most
\* N HTTP attempts: it returns the content of the first attempt that yields a
\* well-formed response of a status below 400, goes on to the next attempt
\* after a 429 or a failed attempt with a delay of 1.5 s or 0.8 s times the
\* attempt number, and raises LLMError once the N attempts are used; with
\* base_url or model missing it raises LLMError before any attempt.
C26_TerminatesWithinRetries == []C26_Bounded /\ <>ChatOver

\* a call with max_retries = 3 returned the content at its third attempt, after
\* a 429 and a failed attempt
C26_Witness ==
    /\ chat.pc = "returned" /\ chat.max_retries = 3 /\ Len(chat.seen) = 3
    /\ chat.seen[1].status = 429
    /\ chat.seen[2].kind = "raises"
    /\ chat.slept = <<15, 16>>

\* a call gave up after its N attempts
C26_WitnessRaised ==
    /\ chat.pc = "raised" /\ chat.max_retries = 2 /\ Len(chat.seen) = 2
    /\ chat.slept = <<8, 30>>

\* a call without a model raised at once
C26_WitnessNoModel ==
    /\ chat.pc = "raised" /\ chat.base_url /\ ~chat.model /\ chat.seen = <<>>

=============================================================================
